---- MODULE Spec2Model ----
(***************************************************************************)
(* Model of the document analytics platform: the keyword classifier       *)
(* (src/classifier.py, class DocumentClassifier), the search engine        *)
(* (src/search_engine.py, class SearchEngine), the document processor      *)
(* (src/document_processor.py), the document store                         *)
(* (src/database_manager.py) and the upload page that joins them           *)
(* (src/app.py).                                                           *)
(*                                                                         *)
(* Strings are TLA+ strings; Len, SubSeq and \o act on them character by   *)
(* character.  A normalized score, which the code holds as a float, is     *)
(* held as an exact fraction <<num, den>>: num counts halves of the raw    *)
(* score and den is twice the keyword count, so that scores are compared   *)
(* by cross-multiplication.  Keyword lists are values: the model does not  *)
(* follow the identity of the list objects callers pass in.                *)
(*                                                                         *)
(* A call is one step: it moves the caller from "idle" to "returned" and   *)
(* records the operation, its arguments and its outcome; Continue takes    *)
(* the caller back to "idle".                                              *)
(***************************************************************************)
EXTENDS Integers, Sequences, FiniteSets, TLC

(***************************************************************************)
(* Characters and the string methods the classifier uses.                  *)
(***************************************************************************)
Char(s, i) == SubSeq(s, i, i)

UpperLetters == "ABCDEFGHIJKLMNOPQRSTUVWXYZ"

LowerLetters == "abcdefghijklmnopqrstuvwxyz"

Digits == "0123456789"

\* The characters matched by \w (letters, digits and the underscore).
WordChars ==
  {Char(LowerLetters, i) : i \in 1..Len(LowerLetters)}
    \cup {Char(UpperLetters, i) : i \in 1..Len(UpperLetters)}
    \cup {Char(Digits, i) : i \in 1..Len(Digits)} \cup {"_"}

\* The characters str.strip() removes.
Whitespace == {" ", "\t", "\n", "\r"}

LowerChar(c) ==
  IF \E i \in 1..Len(UpperLetters) : Char(UpperLetters, i) = c
  THEN Char(LowerLetters, CHOOSE i \in 1..Len(UpperLetters) : Char(UpperLetters, i) = c)
  ELSE c

\* str.lower(), character by character; the string is halved so that long
\* contents are lowered at a depth logarithmic in their length.
RECURSIVE lower(_)
lower(s) ==
  IF Len(s) <= 1 THEN LowerChar(s)
  ELSE LET half == Len(s) \div 2
       IN  lower(SubSeq(s, 1, half)) \o lower(SubSeq(s, half + 1, Len(s)))

\* bool(s.strip()): some character of s is not whitespace.
StripIsEmpty(s) == \A i \in 1..Len(s) : Char(s, i) \in Whitespace

\* re.findall(r'\b\w+\b', s): the maximal runs of word characters, left to
\* right.  start is the index where the current run began, 0 outside a run.
RECURSIVE FindAllFrom(_, _, _)
FindAllFrom(s, i, start) ==
  IF i > Len(s)
  THEN IF start > 0 THEN <<SubSeq(s, start, Len(s))>> ELSE <<>>
  ELSE IF Char(s, i) \in WordChars
       THEN FindAllFrom(s, i + 1, IF start > 0 THEN start ELSE i)
       ELSE (IF start > 0 THEN <<SubSeq(s, start, i - 1)>> ELSE <<>>)
              \o FindAllFrom(s, i + 1, 0)

findall_words(s) == FindAllFrom(s, 1, 0)

\* set(words)
RECURSIVE ToSet(_)
ToSet(l) == IF l = <<>> THEN {} ELSE {Head(l)} \cup ToSet(Tail(l))

\* str.count(sub): the number of non-overlapping occurrences, scanning from
\* the left; the empty string occurs len(s) + 1 times.
RECURSIVE CountFrom(_, _, _)
CountFrom(s, sub, i) ==
  IF i + Len(sub) - 1 > Len(s) THEN 0
  ELSE IF SubSeq(s, i, i + Len(sub) - 1) = sub
       THEN 1 + CountFrom(s, sub, i + Len(sub))
       ELSE CountFrom(s, sub, i + 1)

count(s, sub) == IF sub = "" THEN Len(s) + 1 ELSE CountFrom(s, sub, 1)

(***************************************************************************)
(* The built-in configuration of DocumentClassifier.__init__.              *)
(* category_keywords is a dict: a sequence of <<category, keywords>> pairs *)
(* in insertion order, no category twice.                                  *)
(***************************************************************************)
InitCategories ==
  <<"Business", "Technical", "Legal", "Medical", "Academic", "Financial",
    "Marketing", "Research", "Report", "Scientific", "Educational",
    "Government", "News", "Entertainment", "Sports", "Travel", "Food",
    "Technology", "Healthcare", "Real Estate", "Insurance", "Banking",
    "Construction", "Manufacturing", "Retail", "Transportation", "Energy",
    "Environmental", "Social Media", "Web Content", "Blog", "Tutorial",
    "Manual", "Policy", "Other">>

InitCategoryKeywords ==
  <<
    <<"Business",
      <<"business", "company", "corporation", "enterprise", "organization",
        "management", "strategy", "marketing", "sales", "revenue", "profit",
        "customer", "client", "market", "industry", "competition",
        "planning", "proposal", "contract", "agreement", "partnership",
        "merger", "acquisition">> >>,
    <<"Technical",
      <<"technical", "technology", "software", "hardware", "system",
        "computer", "programming", "code", "development", "engineering",
        "algorithm", "database", "network", "security", "infrastructure",
        "architecture", "specification", "documentation", "manual", "api",
        "framework", "protocol">> >>,
    <<"Legal",
      <<"legal", "law", "court", "judge", "lawyer", "attorney", "litigation",
        "contract", "agreement", "terms", "conditions", "clause",
        "regulation", "compliance", "statute", "legislation", "judicial",
        "plaintiff", "defendant", "evidence", "testimony", "verdict",
        "settlement", "damages", "liability">> >>,
    <<"Medical",
      <<"medical", "health", "healthcare", "hospital", "patient", "doctor",
        "physician", "nurse", "treatment", "diagnosis", "therapy",
        "medication", "drug", "disease", "symptom", "clinical",
        "pharmaceutical", "surgery", "anatomy", "physiology", "pathology",
        "radiology", "laboratory", "vaccine">> >>,
    <<"Academic",
      <<"academic", "research", "study", "university", "college",
        "education", "student", "professor", "faculty", "curriculum",
        "course", "degree", "thesis", "dissertation", "journal",
        "publication", "conference", "methodology", "analysis", "experiment",
        "hypothesis", "theory", "literature">> >>,
    <<"Financial",
      <<"financial", "finance", "money", "investment", "banking", "credit",
        "loan", "debt", "budget", "accounting", "audit", "tax", "income",
        "expense", "asset", "liability", "equity", "portfolio", "stock",
        "bond", "securities", "insurance", "pension", "fund", "capital">> >>,
    <<"Marketing",
      <<"marketing", "advertising", "promotion", "campaign", "brand",
        "branding", "customer", "consumer", "target", "audience",
        "demographic", "segment", "product", "service", "pricing",
        "distribution", "channel", "retail", "digital", "social", "media",
        "content", "seo", "analytics", "conversion">> >>,
    <<"Research",
      <<"research", "study", "analysis", "investigation", "survey",
        "experiment", "data", "results", "findings", "conclusion",
        "methodology", "sample", "hypothesis", "statistical", "quantitative",
        "qualitative", "empirical", "observation", "measurement",
        "correlation", "regression", "significance">> >>,
    <<"Report",
      <<"report", "summary", "overview", "executive", "quarterly", "annual",
        "progress", "status", "update", "performance", "metrics", "kpi",
        "dashboard", "benchmark", "evaluation", "assessment", "review",
        "recommendation", "conclusion", "action", "plan", "forecast",
        "projection">> >>,
    <<"Scientific",
      <<"research", "experiment", "hypothesis", "methodology", "data",
        "analysis", "results", "conclusion", "peer", "review", "publication",
        "journal", "laboratory", "study", "observation", "measurement",
        "theory", "model", "validation", "statistical", "significance",
        "correlation", "causation">> >>,
    <<"Educational",
      <<"education", "learning", "teaching", "curriculum", "lesson",
        "course", "training", "workshop", "seminar", "tutorial",
        "instruction", "guide", "knowledge", "skill", "competency",
        "assessment", "evaluation", "grade", "student", "teacher",
        "instructor", "professor", "classroom", "online">> >>,
    <<"Government",
      <<"government", "policy", "regulation", "legislation", "law",
        "statute", "ordinance", "rule", "compliance", "enforcement",
        "agency", "department", "ministry", "bureau", "commission",
        "authority", "public", "service", "administration", "official",
        "federal", "state", "local", "municipal">> >>,
    <<"News",
      <<"news", "article", "breaking", "headline", "story", "reporter",
        "journalist", "press", "media", "coverage", "interview", "statement",
        "announcement", "update", "bulletin", "broadcast", "publication",
        "editorial", "opinion", "current", "events", "happening",
        "developing", "latest", "recent">> >>,
    <<"Entertainment",
      <<"entertainment", "movie", "film", "television", "tv", "show",
        "series", "music", "song", "album", "artist", "performer", "actor",
        "actress", "celebrity", "star", "fame", "popular", "culture",
        "gaming", "game", "sport", "recreation", "leisure", "fun",
        "enjoyment", "amusement">> >>,
    <<"Sports",
      <<"sports", "football", "basketball", "baseball", "soccer", "tennis",
        "golf", "hockey", "volleyball", "swimming", "running", "marathon",
        "athlete", "player", "team", "coach", "training", "competition",
        "tournament", "championship", "league", "season", "game", "match">> >>,
    <<"Travel",
      <<"travel", "trip", "vacation", "holiday", "destination", "tourism",
        "hotel", "accommodation", "flight", "airline", "airport", "booking",
        "reservation", "itinerary", "guide", "attraction", "sightseeing",
        "adventure", "exploration", "journey", "expedition", "cruise",
        "resort">> >>,
    <<"Food",
      <<"food", "recipe", "cooking", "cuisine", "restaurant", "menu", "dish",
        "ingredient", "nutrition", "diet", "healthy", "organic", "fresh",
        "meal", "breakfast", "lunch", "dinner", "snack", "beverage", "drink",
        "chef", "kitchen", "preparation", "flavor", "taste", "delicious">> >>,
    <<"Technology",
      <<"technology", "innovation", "digital", "computer", "software",
        "hardware", "internet", "web", "mobile", "app", "application",
        "platform", "system", "data", "cloud", "artificial", "intelligence",
        "machine", "learning", "automation", "robotics", "blockchain",
        "cryptocurrency", "cybersecurity">> >>,
    <<"Healthcare",
      <<"healthcare", "health", "medical", "medicine", "treatment",
        "therapy", "diagnosis", "patient", "doctor", "nurse", "hospital",
        "clinic", "pharmaceutical", "drug", "medication", "disease",
        "illness", "condition", "prevention", "wellness", "fitness",
        "exercise", "mental", "physical">> >>,
    <<"Real Estate",
      <<"real", "estate", "property", "house", "home", "apartment", "condo",
        "residential", "commercial", "industrial", "land", "lot", "building",
        "construction", "development", "investment", "mortgage", "loan",
        "rent", "lease", "buy", "sell", "market", "value", "appraisal",
        "agent", "broker">> >>,
    <<"Insurance",
      <<"insurance", "policy", "coverage", "premium", "claim", "deductible",
        "liability", "auto", "health", "life", "property", "casualty",
        "underwriting", "risk", "assessment", "protection", "benefit",
        "compensation", "reimbursement", "settlement", "adjuster", "agent",
        "broker", "carrier">> >>,
    <<"Banking",
      <<"banking", "bank", "account", "savings", "checking", "deposit",
        "withdrawal", "transfer", "transaction", "balance", "interest",
        "rate", "loan", "credit", "mortgage", "investment", "portfolio",
        "financial", "money", "currency", "payment", "card", "atm", "branch",
        "online", "mobile">> >>,
    <<"Construction",
      <<"construction", "building", "contractor", "architect", "engineer",
        "project", "site", "material", "concrete", "steel", "wood",
        "foundation", "structure", "design", "blueprint", "permit", "safety",
        "equipment", "machinery", "worker", "labor", "cost", "budget",
        "schedule", "timeline", "completion">> >>,
    <<"Manufacturing",
      <<"manufacturing", "production", "factory", "plant", "assembly",
        "line", "process", "quality", "control", "inspection", "testing",
        "machinery", "equipment", "automation", "efficiency", "output",
        "capacity", "supply", "chain", "inventory", "raw", "material",
        "finished", "goods", "warehouse">> >>,
    <<"Retail",
      <<"retail", "store", "shop", "customer", "sale", "purchase", "product",
        "merchandise", "inventory", "stock", "price", "discount",
        "promotion", "marketing", "advertising", "brand", "display",
        "checkout", "payment", "service", "experience", "satisfaction",
        "loyalty", "return", "exchange">> >>,
    <<"Transportation",
      <<"transportation", "transport", "vehicle", "car", "truck", "bus",
        "train", "airplane", "ship", "freight", "cargo", "delivery",
        "logistics", "route", "traffic", "road", "highway", "infrastructure",
        "fuel", "maintenance", "safety", "regulation", "license", "permit",
        "driver", "passenger">> >>,
    <<"Energy",
      <<"energy", "power", "electricity", "solar", "wind", "nuclear", "coal",
        "oil", "gas", "renewable", "sustainable", "grid", "generation",
        "consumption", "efficiency", "conservation", "utility", "plant",
        "facility", "resource", "fuel", "battery", "storage", "transmission",
        "distribution", "cost">> >>,
    <<"Environmental",
      <<"environmental", "environment", "ecology", "climate", "weather",
        "pollution", "contamination", "waste", "recycling", "sustainability",
        "conservation", "protection", "wildlife", "habitat", "ecosystem",
        "biodiversity", "carbon", "emission", "greenhouse", "global",
        "warming", "renewable", "clean", "green">> >>,
    <<"Social Media",
      <<"social", "media", "facebook", "twitter", "instagram", "linkedin",
        "youtube", "post", "share", "like", "comment", "follow", "follower",
        "friend", "network", "platform", "content", "viral", "trending",
        "hashtag", "influence", "engagement", "community", "online",
        "digital", "communication", "interaction", "connection">> >>,
    <<"Web Content",
      <<"web", "website", "page", "content", "blog", "article", "post",
        "online", "internet", "digital", "html", "css", "javascript",
        "responsive", "design", "user", "experience", "interface",
        "navigation", "link", "url", "domain", "hosting", "server",
        "database", "cms", "wordpress", "seo", "optimization">> >>,
    <<"Blog",
      <<"blog", "blogger", "blogging", "post", "article", "content",
        "writing", "author", "publish", "share", "comment", "reader",
        "audience", "topic", "category", "tag", "archive", "feed", "rss",
        "subscribe", "follow", "personal", "opinion", "experience", "story",
        "diary", "journal">> >>,
    <<"Tutorial",
      <<"tutorial", "guide", "how", "to", "step", "instruction", "lesson",
        "learn", "teach", "explain", "demonstrate", "example", "practice",
        "exercise", "walkthrough", "course", "training", "skill",
        "technique", "method", "procedure", "process", "beginner",
        "advanced", "tips", "tricks">> >>,
    <<"Manual",
      <<"manual", "handbook", "guide", "instruction", "documentation",
        "reference", "specification", "procedure", "operation",
        "maintenance", "troubleshooting", "installation", "setup",
        "configuration", "user", "technical", "service", "repair",
        "warranty", "safety", "precaution", "warning", "caution">> >>,
    <<"Policy",
      <<"policy", "procedure", "guideline", "rule", "regulation", "standard",
        "protocol", "directive", "instruction", "requirement", "compliance",
        "governance", "framework", "structure", "process", "workflow",
        "approval", "authorization", "responsibility", "accountability",
        "enforcement", "violation">> >>
  >>

(***************************************************************************)
(* State.                                                                  *)
(***************************************************************************)
VARIABLES
  categories,         \* self.categories
  category_keywords,  \* self.category_keywords
  model,              \* self.model
  is_trained,         \* self.is_trained
  model_file,         \* classifier_model.pkl: absent, corrupt or a pickled model
  calls,              \* number of state-changing calls made so far
  pc,                 \* "idle", or "returned" while the caller holds a result
  op, arg, ret,       \* the last call, its arguments and its outcome
  doc_list,           \* the caller's list of document tuples (app.py: documents)
  recorded,              \* the latest search_documents call on record: arguments and outcome
  table,              \* the rows of the documents table
  sequence            \* the highest id the documents table has handed out

vars == <<categories, category_keywords, model, is_trained, model_file, calls,
          pc, op, arg, ret, doc_list, recorded, table, sequence>>

(***************************************************************************)
(* Dict helpers: d is a sequence of <<key, value>> pairs.                  *)
(***************************************************************************)
Keys(d) == [i \in 1..Len(d) |-> d[i][1]]

HasKey(d, k) == \E i \in 1..Len(d) : d[i][1] = k

IndexOf(d, k) == CHOOSE i \in 1..Len(d) : d[i][1] = k

Get(d, k) == d[IndexOf(d, k)][2]

InList(l, x) == \E i \in 1..Len(l) : l[i] = x

(***************************************************************************)
(* The outcome of a call: a returned value or a raised exception.          *)
(***************************************************************************)
Return(v) == [raised |-> FALSE, value |-> v]

Raise(e) == [raised |-> TRUE, value |-> e]

(***************************************************************************)
(* Keyword scoring.                                                        *)
(***************************************************************************)
\* The loop body of lines 257-263 with the exact-match increment left out.
RECURSIVE Score2SubstringOnly(_, _, _, _)
Score2SubstringOnly(keywords, content_lower, word_set, i) ==
  IF i > Len(keywords) THEN 0
  ELSE count(content_lower, keywords[i])
       + Score2SubstringOnly(keywords, content_lower, word_set, i + 1)

\* Twice the raw score of one keyword list: 1 for a keyword that is a token
\* of the content, plus 0.5 for each occurrence counted by str.count.
RECURSIVE Score2(_, _, _, _)
Score2(keywords, content_lower, word_set, i) ==
  IF i > Len(keywords) THEN 0
  ELSE (IF keywords[i] \in word_set THEN 2 ELSE 0)
       + count(content_lower, keywords[i])
       + Score2(keywords, content_lower, word_set, i + 1)

\* The raw scores of all categories, in the iteration order of the dict, as
\* fractions <<twice the raw score, twice the keyword count>>.
RECURSIVE ScoresFrom(_, _, _, _)
ScoresFrom(ck, content_lower, word_set, i) ==
  IF i > Len(ck) THEN <<>>
  ELSE <<<<Score2(ck[i][2], content_lower, word_set, 1), 2 * Len(ck[i][2])>>>>
         \o ScoresFrom(ck, content_lower, word_set, i + 1)

CategoryScores(ck, content_lower) ==
  ScoresFrom(ck, content_lower, ToSet(findall_words(content_lower)), 1)

\* a/b > c/d for fractions <<num, den>> with den > 0.
FracGT(x, y) == x[1] * y[2] > y[1] * x[2]

\* The threshold 0.1 of _classify_by_keywords.
Threshold == <<1, 10>>

\* max(keys, key=...): the first key, in iteration order, of maximal value.
ArgMaxFirst(scores) ==
  CHOOSE i \in 1..Len(scores) :
    /\ \A j \in 1..Len(scores) : ~FracGT(scores[j], scores[i])
    /\ \A j \in 1..(i - 1) : FracGT(scores[i], scores[j])

\* The choice made once every category has its score (lines 268-277).
BestCategory(ck, category_scores) ==
  IF Len(ck) = 0 THEN Return("Other")
  ELSE LET best == ArgMaxFirst(category_scores)
       IN  IF FracGT(category_scores[best], Threshold)
           THEN Return(ck[best][1])
           ELSE Return("Other")

\* score / len(keywords) raises ZeroDivisionError for an empty keyword list.
_classify_by_keywords(content, ck) ==
  IF \E i \in 1..Len(ck) : Len(ck[i][2]) = 0
  THEN Raise("ZeroDivisionError")
  ELSE BestCategory(ck, CategoryScores(ck, lower(content)))

\* get_classification_confidence without min(normalized_score, 1.0).
RECURSIVE UncappedFrom(_, _, _)
UncappedFrom(scores, ck, i) ==
  IF i > Len(ck) THEN <<>>
  ELSE <<<<ck[i][1], IF scores[i][2] > 0 THEN scores[i] ELSE <<0, 1>>>>>>
         \o UncappedFrom(scores, ck, i + 1)

get_classification_confidence_uncapped(content, ck) ==
  UncappedFrom(CategoryScores(ck, lower(content)), ck, 1)

\* The normalized scores capped at 1.0, 0 for a category without keywords,
\* as a dict category -> fraction.
RECURSIVE CappedFrom(_, _, _)
CappedFrom(scores, ck, i) ==
  IF i > Len(ck) THEN <<>>
  ELSE LET normalized_score == IF scores[i][2] > 0 THEN scores[i] ELSE <<0, 1>>
       IN  <<<<ck[i][1],
               IF FracGT(normalized_score, <<1, 1>>) THEN <<1, 1>> ELSE normalized_score>>>>
             \o CappedFrom(scores, ck, i + 1)

get_classification_confidence(content, ck) ==
  CappedFrom(CategoryScores(ck, lower(content)), ck, 1)

\* add_category_keywords that registers the category without looking it up
\* in self.categories.
add_category_keywords_reregister(cats, ck, category, keywords) ==
  IF HasKey(ck, category)
  THEN <<cats,
         [ck EXCEPT ![IndexOf(ck, category)] = <<category, ck[IndexOf(ck, category)][2] \o keywords>>]>>
  ELSE <<Append(cats, category), Append(ck, <<category, keywords>>)>>

\* add_category_keywords: the new values of <<categories, category_keywords>>.
add_category_keywords(cats, ck, category, keywords) ==
  IF HasKey(ck, category)
  THEN <<cats,
         [ck EXCEPT ![IndexOf(ck, category)] = <<category, ck[IndexOf(ck, category)][2] \o keywords>>]>>
  ELSE <<IF InList(cats, category) THEN cats ELSE Append(cats, category),
         Append(ck, <<category, keywords>>)>>

get_categories == categories

(***************************************************************************)
(* The optional trained model.  A document is the pair of the two fields   *)
(* train_classifier reads: doc[3], the content, and doc[6], the category   *)
(* ("" stands for a missing category).  Of a fitted Pipeline the model     *)
(* keeps the classes it was fitted on.                                     *)
(***************************************************************************)
None == [kind |-> "None"]

Pipeline(fitted, classes) == [kind |-> "Pipeline", fitted |-> fitted, classes |-> classes]

\* len(documents) < 10
MinDocuments == 10

\* len(set(labels)) < 2
MinLabels == 2

\* texts and labels: the documents that carry a category, in order.
RECURSIVE Categorized(_)
Categorized(documents) ==
  IF documents = <<>> THEN <<>>
  ELSE (IF documents[1].category # "" THEN <<documents[1]>> ELSE <<>>)
         \o Categorized(Tail(documents))

\* self.model.fit(texts, labels) raises when the vectorizer finds no term in
\* any text (a term is a token of two or more word characters).
HasTerm(text) == \E w \in ToSet(findall_words(lower(text))) : Len(w) >= 2

FitRaises(texts) == \A i \in 1..Len(texts) : ~HasTerm(texts[i].content)

\* train_classifier: <<returned value, model, is_trained, fitted and saved>>.
train_classifier(documents, old_model, old_trained) ==
  IF Len(documents) < MinDocuments THEN <<FALSE, old_model, old_trained, FALSE>>
  ELSE LET docs == Categorized(documents)
           labels == {docs[i].category : i \in 1..Len(docs)}
       IN  IF Cardinality(labels) < MinLabels
           THEN <<FALSE, old_model, old_trained, FALSE>>
           ELSE IF FitRaises(docs)
                THEN <<FALSE, Pipeline(FALSE, {}), old_trained, FALSE>>
                ELSE <<TRUE, Pipeline(TRUE, labels), TRUE, TRUE>>

\* _save_model: the file after the attempt.  open() may fail (the file stays
\* as it was) and pickle.dump may fail after open() truncated the file.
SaveOutcomes == {"saved", "open_failed", "dump_failed"}

_save_model(file, m, trained, outcome) ==
  IF m.kind # "None" /\ trained
  THEN CASE outcome = "saved" -> m
         [] outcome = "open_failed" -> file
         [] OTHER -> [kind |-> "corrupt"]
  ELSE file

\* _load_model: <<model, is_trained>> after the attempt on a fresh object.
_load_model(file) ==
  IF file.kind = "Pipeline" THEN <<file, TRUE>> ELSE <<None, FALSE>>

\* _classify_with_ml: the model's prediction is one of its classes; without
\* a fitted model, or when predict raises, the keyword classification.
_classify_with_ml(content, ck) ==
  IF ~is_trained \/ model.kind = "None" THEN _classify_by_keywords(content, ck)
  ELSE IF model.fitted /\ model.classes # {}
       THEN Return(CHOOSE c \in model.classes : TRUE)
       ELSE _classify_by_keywords(content, ck)

\* classify_document without the test for blank content.
classify_document_unguarded(content, ck) == _classify_by_keywords(content, ck)

\* classify_document that asks the trained model.
classify_document_with_ml(content, ck) ==
  IF StripIsEmpty(content) THEN Return("Other")
  ELSE _classify_with_ml(content, ck)

classify_document(content, ck) ==
  IF StripIsEmpty(content) THEN Return("Other")
  ELSE _classify_by_keywords(content, ck)

(***************************************************************************)
(* Inputs.                                                                 *)
(***************************************************************************)
MaxCalls == 2

\* The sample documents of the three built-in categories.
Samples ==
  {"legal contract clause liability",
   "football match tournament league",
   "patient diagnosis treatment hospital"}

Contents == {"", " \n", "zq", "Zq zq", "azq", "zqzqzq"}

\* The <<category, keywords>> arguments of add_category_keywords: a category
\* that is not registered (Alpha), the registered category that has no
\* keywords (Other) and a built-in category (Legal); no keyword, one keyword
\* and five keywords.
AddInputs ==
  {<<"Alpha", <<>>>>,
   <<"Alpha", <<"zq">>>>,
   <<"Alpha", <<"zq", "qx", "xq", "qq", "zz">>>>,
   <<"Other", <<>>>>,
   <<"Other", <<"zq">>>>,
   <<"Legal", <<"zq">>>>}

\* n copies of one document.
Copies(n, doc) == [i \in 1..n |-> doc]

Doc(content, category) == [content |-> content, category |-> category]

\* a documents with category Legal, then b with Sports, then c without.
DocList(a, b, c, text) ==
  Copies(a, Doc(text, "Legal")) \o Copies(b, Doc(text, "Sports")) \o Copies(c, Doc(text, ""))

TrainingSets ==
  {DocList(9, 0, 0, "legal contract"),
   DocList(10, 0, 0, "legal contract"),
   DocList(0, 0, 10, "legal contract"),
   DocList(5, 5, 0, "legal contract"),
   DocList(1, 1, 8, "legal contract"),
   DocList(8, 1, 0, "legal contract"),
   DocList(5, 5, 0, "")}

ModelFiles == {[kind |-> "absent"], [kind |-> "corrupt"], Pipeline(TRUE, {"Legal", "Sports"})}

(***************************************************************************)
(* Init: a DocumentClassifier right after __init__, for each content the   *)
(* model file may have.                                                    *)
(***************************************************************************)
InitClassifier ==
  /\ model_file \in ModelFiles
  /\ categories = InitCategories
  /\ category_keywords = InitCategoryKeywords
  /\ model = _load_model(model_file)[1]
  /\ is_trained = _load_model(model_file)[2]
  /\ calls = 0
  /\ pc = "idle"
  /\ op = "none"
  /\ arg = <<>>
  /\ ret = Return("None")

\* The record of the latest search_documents call: its arguments and outcome,
\* whether the search before it had the same arguments (again), whether other
\* calls were made between the two (between) and whether any was made since.
\* No search on record, and none to be recorded:
Unrecorded == [on |-> FALSE, arg |-> <<>>, ret |-> Return("None"),
               again |-> FALSE, between |-> FALSE, since |-> FALSE]
\* No search on record yet; the next ones are recorded:
Recording == [Unrecorded EXCEPT !.on = TRUE]

\* A program that has a classifier and nothing else: no document list, no
\* rows in the table.
Init ==
  /\ InitClassifier
  /\ doc_list = <<>>
  /\ recorded = Unrecorded
  /\ table = {}
  /\ sequence = 0

\* The caller gets its answer; a search_documents call goes on record.
Answered(name, args, outcome) ==
  /\ pc = "idle"
  /\ pc' = "returned"
  /\ op' = name
  /\ arg' = args
  /\ ret' = outcome
  /\ recorded' = IF ~recorded.on THEN recorded
                 ELSE IF name = "search_documents"
                 THEN [on |-> TRUE, arg |-> args, ret |-> outcome,
                       again |-> (recorded.arg = args), between |-> recorded.since,
                       since |-> FALSE]
                 ELSE [recorded EXCEPT !.since = TRUE]

\* A call that reads and writes neither the documents table nor the
\* caller's list.
Called(name, args, outcome) ==
  /\ Answered(name, args, outcome)
  /\ UNCHANGED <<doc_list, table, sequence>>

\* A new DocumentClassifier() replaces the old one.
Construct ==
  /\ calls < MaxCalls
  /\ calls' = calls + 1
  /\ Called("__init__", <<>>, Return("None"))
  /\ categories' = InitCategories
  /\ category_keywords' = InitCategoryKeywords
  /\ model' = _load_model(model_file)[1]
  /\ is_trained' = _load_model(model_file)[2]
  /\ UNCHANGED model_file

ClassifyDocument(content) ==
  /\ Called("classify_document", <<content>>, classify_document(content, category_keywords))
  /\ UNCHANGED <<categories, category_keywords, model, is_trained, model_file, calls>>

GetClassificationConfidence(content) ==
  /\ Called("get_classification_confidence", <<content>>,
            Return(get_classification_confidence(content, category_keywords)))
  /\ UNCHANGED <<categories, category_keywords, model, is_trained, model_file, calls>>

GetCategories ==
  /\ Called("get_categories", <<>>, Return(get_categories))
  /\ UNCHANGED <<categories, category_keywords, model, is_trained, model_file, calls>>

AddCategoryKeywords(category, keywords) ==
  /\ calls < MaxCalls
  /\ calls' = calls + 1
  /\ Called("add_category_keywords", <<category, keywords>>, Return("None"))
  /\ categories' = add_category_keywords(categories, category_keywords, category, keywords)[1]
  /\ category_keywords' = add_category_keywords(categories, category_keywords, category, keywords)[2]
  /\ UNCHANGED <<model, is_trained, model_file>>

TrainClassifier(documents, outcome) ==
  LET r == train_classifier(documents, model, is_trained)
  IN  /\ calls < MaxCalls
      /\ calls' = calls + 1
      /\ Called("train_classifier", <<documents>>, Return(r[1]))
      /\ model' = r[2]
      /\ is_trained' = r[3]
      /\ model_file' = IF r[4] THEN _save_model(model_file, r[2], r[3], outcome) ELSE model_file
      /\ UNCHANGED <<categories, category_keywords>>

\* The caller has consumed the result and is ready for its next call.
Continue ==
  /\ pc = "returned"
  /\ pc' = "idle"
  /\ op' = "none"
  /\ arg' = <<>>
  /\ ret' = Return("None")
  /\ UNCHANGED <<categories, category_keywords, model, is_trained, model_file, calls>>
  /\ UNCHANGED <<doc_list, recorded, table, sequence>>

Next ==
  \/ Construct
  \/ \E content \in Contents : ClassifyDocument(content)
  \/ \E content \in Contents : GetClassificationConfidence(content)
  \/ GetCategories
  \/ \E input \in AddInputs : AddCategoryKeywords(input[1], input[2])
  \/ \E documents \in TrainingSets, outcome \in SaveOutcomes :
       TrainClassifier(documents, outcome)
  \/ Continue

Spec == Init /\ [][Next]_vars

\* The built-in table under the sample documents: no keywords are added.
NextSamples ==
  \/ Construct
  \/ \E content \in Samples : ClassifyDocument(content)
  \/ \E content \in Samples : GetClassificationConfidence(content)
  \/ GetCategories
  \/ \E documents \in TrainingSets, outcome \in SaveOutcomes :
       TrainClassifier(documents, outcome)
  \/ Continue

SpecSamples == Init /\ [][NextSamples]_vars


(***************************************************************************)
(* The search engine (src/search_engine.py).  SearchEngine keeps no state: *)
(* every method is a function of its arguments.                            *)
(***************************************************************************)

\* str.strip(): leading and trailing whitespace removed.
RECURSIVE lstrip(_)
lstrip(s) ==
  IF s # "" /\ Char(s, 1) \in Whitespace THEN lstrip(SubSeq(s, 2, Len(s))) ELSE s

RECURSIVE rstrip(_)
rstrip(s) ==
  IF s # "" /\ Char(s, Len(s)) \in Whitespace THEN rstrip(SubSeq(s, 1, Len(s) - 1)) ELSE s

strip(s) == rstrip(lstrip(s))

\* term in text: term occurs in text as a contiguous substring.
Contains(text, term) ==
  \E i \in 1..(Len(text) - Len(term) + 1) : SubSeq(text, i, i + Len(term) - 1) = term

\* The index of the first occurrence of character c in s at or after i, 0 if
\* there is none.
RECURSIVE IndexFrom(_, _, _)
IndexFrom(s, c, i) ==
  IF i > Len(s) THEN 0
  ELSE IF Char(s, i) = c THEN i ELSE IndexFrom(s, c, i + 1)

\* re.findall(r'"([^"]*)"', query): the contents of the quoted spans, left to
\* right.  A span runs from a quote to the next quote; a last quote without
\* a partner opens no span.
RECURSIVE QuotedFrom(_, _)
QuotedFrom(query, i) ==
  LET open == IndexFrom(query, "\"", i)
      close == IF open = 0 THEN 0 ELSE IndexFrom(query, "\"", open + 1)
  IN  IF close = 0 THEN <<>>
      ELSE <<SubSeq(query, open + 1, close - 1)>> \o QuotedFrom(query, close + 1)

\* re.sub(r'"[^"]*"', '', query): the query with the quoted spans cut out.
RECURSIVE UnquotedFrom(_, _)
UnquotedFrom(query, i) ==
  LET open == IndexFrom(query, "\"", i)
      close == IF open = 0 THEN 0 ELSE IndexFrom(query, "\"", open + 1)
  IN  IF close = 0 THEN SubSeq(query, i, Len(query))
      ELSE SubSeq(query, i, open - 1) \o UnquotedFrom(query, close + 1)

\* str.split(): the maximal runs of characters that are not whitespace.
RECURSIVE SplitFrom(_, _, _)
SplitFrom(s, i, start) ==
  IF i > Len(s)
  THEN IF start > 0 THEN <<SubSeq(s, start, Len(s))>> ELSE <<>>
  ELSE IF Char(s, i) \notin Whitespace
       THEN SplitFrom(s, i + 1, IF start > 0 THEN start ELSE i)
       ELSE (IF start > 0 THEN <<SubSeq(s, start, i - 1)>> ELSE <<>>)
              \o SplitFrom(s, i + 1, 0)

split(s) == SplitFrom(s, 1, 0)

\* [term.strip() for term in search_terms if term.strip()]
RECURSIVE StripTerms(_)
StripTerms(terms) ==
  IF terms = <<>> THEN <<>>
  ELSE (IF StripIsEmpty(Head(terms)) THEN <<>> ELSE <<strip(Head(terms))>>)
         \o StripTerms(Tail(terms))

\* _parse_query without the strip of the kept terms.
_parse_query_unstripped(query) ==
  SelectSeq(QuotedFrom(query, 1) \o split(UnquotedFrom(query, 1)),
            LAMBDA term : ~StripIsEmpty(term))

_parse_query(query) ==
  LET quoted_phrases == QuotedFrom(query, 1)
      remaining_query == UnquotedFrom(query, 1)
      individual_terms == split(remaining_query)
  IN  StripTerms(quoted_phrases \o individual_terms)

\* term.lower() for term in search_terms
RECURSIVE LowerTerms(_)
LowerTerms(terms) ==
  IF terms = <<>> THEN <<>> ELSE <<lower(Head(terms))>> \o LowerTerms(Tail(terms))

\* _document_matches without the test for an empty term list.
_document_matches_vacuous(text, search_terms, case_sensitive) ==
  LET t == IF case_sensitive THEN text ELSE lower(text)
      terms == IF case_sensitive THEN search_terms ELSE LowerTerms(search_terms)
  IN  \A k \in 1..Len(terms) : Contains(t, terms[k])

\* _document_matches: every term occurs in the text; no terms, no match.
_document_matches(text, search_terms, case_sensitive) ==
  IF search_terms = <<>> THEN FALSE
  ELSE LET t == IF case_sensitive THEN text ELSE lower(text)
           terms == IF case_sensitive THEN search_terms ELSE LowerTerms(search_terms)
       IN  \A k \in 1..Len(terms) : Contains(t, terms[k])

\* The wrapper the highlighter puts around a match.
MarkOpen == "<mark style=\"background-color: yellow; padding: 2px;\">"

MarkClose == "</mark>"

\* \b at position p of s (between s[p-1] and s[p]): exactly one of the two
\* neighbours is a word character; outside the string there is none.
IsWordChar(s, p) == p >= 1 /\ p <= Len(s) /\ Char(s, p) \in WordChars

\* A \b that holds at every position.
Boundary_anywhere(s, p) == TRUE

Boundary(s, p) == IsWordChar(s, p - 1) # IsWordChar(s, p)

\* The positions lo..hi of s where \b term \b matches, in ascending order.
\* folded is s itself, or s lowered under re.IGNORECASE, and term is lowered
\* likewise.  The range is halved to keep the depth logarithmic.
RECURSIVE MatchesIn(_, _, _, _, _)
MatchesIn(s, folded, term, lo, hi) ==
  IF lo > hi THEN <<>>
  ELSE IF lo = hi
       THEN IF /\ SubSeq(folded, lo, lo + Len(term) - 1) = term
               /\ Boundary(s, lo)
               /\ Boundary(s, lo + Len(term))
            THEN <<lo>> ELSE <<>>
       ELSE LET mid == (lo + hi) \div 2
            IN  MatchesIn(s, folded, term, lo, mid) \o MatchesIn(s, folded, term, mid + 1, hi)

\* re.sub takes the matches from the left and resumes after each match: the
\* text of s from position i on, with the matches at or after i wrapped.
RECURSIVE WrapFrom(_, _, _, _, _)
WrapFrom(s, matches, k, len, i) ==
  IF k > Len(matches) THEN SubSeq(s, i, Len(s))
  ELSE IF matches[k] < i THEN WrapFrom(s, matches, k + 1, len, i)
       ELSE SubSeq(s, i, matches[k] - 1)
              \o MarkOpen \o SubSeq(s, matches[k], matches[k] + len - 1) \o MarkClose
              \o WrapFrom(s, matches, k + 1, len, matches[k] + len)

\* re.sub(r'\b' + re.escape(term) + r'\b', <mark>\g<0></mark>, s, flags)
sub_term(s, term, case_sensitive) ==
  LET folded == IF case_sensitive THEN s ELSE lower(s)
      t == IF case_sensitive THEN term ELSE lower(term)
      matches == MatchesIn(s, folded, t, 1, Len(s) - Len(term) + 1)
  IN  IF matches = <<>> THEN s ELSE WrapFrom(s, matches, 1, Len(term), 1)

\* The loop of _highlight_matches over the terms from the k-th on.
RECURSIVE HighlightFrom(_, _, _, _)
HighlightFrom(highlighted_content, search_terms, k, case_sensitive) ==
  IF k > Len(search_terms) THEN highlighted_content
  ELSE HighlightFrom(IF StripIsEmpty(search_terms[k]) THEN highlighted_content
                     ELSE sub_term(highlighted_content, search_terms[k], case_sensitive),
                     search_terms, k + 1, case_sensitive)

\* def _truncate_content(self, content, max_length=1500)
DefaultMaxLength == 1500

\* self._truncate_content(highlighted_content, max_length=2000)
HighlightMaxLength == 2000

\* range(max_length - 100, max_length + 100)
BreakWindow == 100

SentenceEnds == {".", "!", "?"}

\* The first 0-based index i in lo..hi with content[i] in '.!?', -1 if there
\* is none.  The range is halved to keep the depth logarithmic.
RECURSIVE FirstSentenceEnd(_, _, _)
FirstSentenceEnd(content, lo, hi) ==
  IF lo > hi THEN -1
  ELSE IF lo = hi
       THEN IF lo < Len(content) /\ Char(content, lo + 1) \in SentenceEnds THEN lo ELSE -1
       ELSE LET mid == (lo + hi) \div 2
                left == FirstSentenceEnd(content, lo, mid)
            IN  IF left >= 0 THEN left ELSE FirstSentenceEnd(content, mid + 1, hi)

\* _truncate_content.  The variant appends the ellipsis to every text longer
\* than max_length.
_truncate_content_marked(content, max_length) ==
  IF Len(content) <= max_length THEN content
  ELSE LET i == FirstSentenceEnd(content, max_length - BreakWindow, max_length + BreakWindow - 1)
           break_point == IF i >= 0 THEN i + 1 ELSE max_length
       IN  strip(SubSeq(content, 1, break_point)) \o "..."
_truncate_content(content, max_length) ==
  IF Len(content) <= max_length THEN content
  ELSE LET i == FirstSentenceEnd(content, max_length - BreakWindow, max_length + BreakWindow - 1)
           break_point == IF i >= 0 THEN i + 1 ELSE max_length
           truncated == strip(SubSeq(content, 1, break_point))
       IN  IF break_point < Len(content) THEN truncated \o "..." ELSE truncated

_highlight_matches(content, search_terms, case_sensitive) ==
  IF search_terms = <<>> THEN _truncate_content(content, DefaultMaxLength)
  ELSE _truncate_content(HighlightFrom(content, search_terms, 1, case_sensitive),
                         HighlightMaxLength)

\* A document holds the fields the search engine reads from the tuple:
\* doc[0] id, doc[2] title, doc[3] content, doc[5] file_type, doc[6] category.
Document(id, title, content, file_type, category) ==
  [id |-> id, title |-> title, content |-> content,
   file_type |-> file_type, category |-> category]

\* search_text that looks into the content under every scope.
search_text_content(doc, search_in) == doc.content

\* The text search_documents looks into: any scope other than "Title" and
\* "Content" is "Both".
search_text(doc, search_in) ==
  IF search_in = "Title" THEN doc.title
  ELSE IF search_in = "Content" THEN doc.content
  ELSE doc.title \o " " \o doc.content

\* The loop of search_documents over the documents.
RECURSIVE SearchFrom(_, _, _, _)
SearchFrom(documents, search_terms, search_in, case_sensitive) ==
  IF documents = <<>> THEN <<>>
  ELSE LET doc == Head(documents)
       IN  (IF _document_matches(search_text(doc, search_in), search_terms, case_sensitive)
            THEN <<<<doc.id, doc,
                     _highlight_matches(doc.content, search_terms, case_sensitive)>>>>
            ELSE <<>>)
             \o SearchFrom(Tail(documents), search_terms, search_in, case_sensitive)

\* search_documents.  The variant hands the results of a search out once: it
\* returns nothing when asked the search on record again.
search_documents_consuming(documents, query, search_in, case_sensitive) ==
  IF recorded.arg = <<documents, query, search_in, case_sensitive>> THEN Return(<<>>)
  ELSE IF StripIsEmpty(query) THEN Return(<<>>)
  ELSE Return(SearchFrom(documents, _parse_query(query), search_in, case_sensitive))
search_documents(documents, query, search_in, case_sensitive) ==
  IF StripIsEmpty(query) THEN Return(<<>>)
  ELSE Return(SearchFrom(documents, _parse_query(query), search_in, case_sensitive))

\* The tests of advanced_search on one document.  An absent criterion (None)
\* and an empty one are both false in the tests of the code: "" and <<>>
\* stand for either.  The variant asks the file type to equal the filter.
passes_criteria_equal_type(doc, include_terms, exclude_terms, category, file_type) ==
  LET text == lower(doc.title \o " " \o doc.content)
  IN  /\ ~(category # "" /\ doc.category # category)
      /\ ~(file_type # "" /\ doc.file_type # file_type)
      /\ \A k \in 1..Len(include_terms) : Contains(text, lower(include_terms[k]))
      /\ ~\E k \in 1..Len(exclude_terms) : Contains(text, lower(exclude_terms[k]))

passes_criteria(doc, include_terms, exclude_terms, category, file_type) ==
  LET text == lower(doc.title \o " " \o doc.content)
  IN  /\ ~(category # "" /\ doc.category # category)
      /\ ~(file_type # "" /\ ~Contains(doc.file_type, file_type))
      /\ \A k \in 1..Len(include_terms) : Contains(text, lower(include_terms[k]))
      /\ ~\E k \in 1..Len(exclude_terms) : Contains(text, lower(exclude_terms[k]))

\* The loop of advanced_search over the documents.
RECURSIVE AdvancedFrom(_, _, _, _, _)
AdvancedFrom(documents, include_terms, exclude_terms, category, file_type) ==
  IF documents = <<>> THEN <<>>
  ELSE LET doc == Head(documents)
       IN  (IF passes_criteria(doc, include_terms, exclude_terms, category, file_type)
            THEN <<<<doc.id, doc, _highlight_matches(doc.content, include_terms, FALSE)>>>>
            ELSE <<>>)
             \o AdvancedFrom(Tail(documents), include_terms, exclude_terms, category, file_type)

\* advanced_search.  The variant does not look at the terms to include.
advanced_search_unfiltered(documents, include_terms, exclude_terms, category, file_type) ==
  Return(AdvancedFrom(documents, <<>>, exclude_terms, category, file_type))
advanced_search(documents, include_terms, exclude_terms, category, file_type) ==
  Return(AdvancedFrom(documents, include_terms, exclude_terms, category, file_type))

\* all_words: the word tokens of the lowered contents of the documents.
RECURSIVE all_words(_)
all_words(documents) ==
  IF documents = <<>> THEN {}
  ELSE ToSet(findall_words(lower(Head(documents).content))) \cup all_words(Tail(documents))

\* str.startswith(prefix)
startswith(word, prefix) ==
  Len(prefix) <= Len(word) /\ SubSeq(word, 1, Len(prefix)) = prefix

\* The test of the loop of get_search_suggestions with the prefix as given.
qualifies_case_sensitive(word, partial_query) ==
  startswith(word, partial_query) /\ Len(word) > Len(partial_query)

\* The test of the loop of get_search_suggestions: partial_lower is a prefix
\* of the word and the word is longer than partial_query.
qualifies(word, partial_query) ==
  startswith(word, lower(partial_query)) /\ Len(word) > Len(partial_query)

\* The characters of words in the order of their code points.
CodePoints == "0123456789ABCDEFGHIJKLMNOPQRSTUVWXYZ_abcdefghijklmnopqrstuvwxyz"

ord(c) == CHOOSE i \in 1..Len(CodePoints) : Char(CodePoints, i) = c

\* a < b on strings of word characters.
RECURSIVE StrLess(_, _)
StrLess(a, b) ==
  IF b = "" THEN FALSE
  ELSE IF a = "" THEN TRUE
  ELSE IF Char(a, 1) = Char(b, 1) THEN StrLess(SubSeq(a, 2, Len(a)), SubSeq(b, 2, Len(b)))
  ELSE ord(Char(a, 1)) < ord(Char(b, 1))

\* sorted(list(suggestions)) from the largest down.
RECURSIVE sorted_descending(_)
sorted_descending(suggestions) ==
  IF suggestions = {} THEN <<>>
  ELSE LET last == CHOOSE x \in suggestions : \A y \in suggestions : x = y \/ StrLess(y, x)
       IN  <<last>> \o sorted_descending(suggestions \ {last})

\* sorted(list(suggestions))
RECURSIVE sorted(_)
sorted(suggestions) ==
  IF suggestions = {} THEN <<>>
  ELSE LET first == CHOOSE x \in suggestions : \A y \in suggestions : x = y \/ StrLess(x, y)
       IN  <<first>> \o sorted(suggestions \ {first})

\* l[:n]
slice(l, n) ==
  IF n >= 0 THEN SubSeq(l, 1, IF n < Len(l) THEN n ELSE Len(l))
  ELSE SubSeq(l, 1, Len(l) + n)

\* def get_search_suggestions(self, documents, partial_query, max_suggestions=5)
DefaultMaxSuggestions == 5

\* len(partial_query) < 2
MinPartialLength == 2

\* The words of a set that pass the test of the loop.
RECURSIVE Qualifying(_, _)
Qualifying(words, partial_query) ==
  IF words = {} THEN {}
  ELSE LET word == CHOOSE w \in words : TRUE
       IN  (IF qualifies(word, partial_query) THEN {word} ELSE {})
             \cup Qualifying(words \ {word}, partial_query)

\* The suggestions the loop may have collected when it ends.  The loop goes
\* through the set all_words in an order the code does not fix and stops
\* after the add that brings the suggestions to max_suggestions: it ends with
\* all the qualifying words if they are fewer than that, and with any
\* max_suggestions of them (one, if max_suggestions is below one) otherwise.
Collected(documents, partial_query, max_suggestions) ==
  LET qualifying == Qualifying(all_words(documents), partial_query)
      stop == IF max_suggestions < 1 THEN 1 ELSE max_suggestions
  IN  IF Cardinality(qualifying) <= stop THEN {qualifying}
      ELSE {suggestions \in SUBSET qualifying : Cardinality(suggestions) = stop}

\* get_search_suggestions: the lists it may return.
get_search_suggestions(documents, partial_query, max_suggestions) ==
  IF Len(partial_query) < MinPartialLength THEN {<<>>}
  ELSE {slice(sorted(suggestions), max_suggestions) :
          suggestions \in Collected(documents, partial_query, max_suggestions)}

\* A threshold is a fraction <<numerator, denominator>> with a positive
\* denominator; 0.3 is <<3, 10>>.  len(intersection) / len(union) is compared
\* with it exactly, by cross-multiplication.
DefaultThreshold == <<3, 10>>

\* similarity = len(intersection) / len(union) if union else 0, as the
\* fraction <<len(intersection), len(union)>>; 0 is <<0, 1>>.
similarity(reference_words, doc_words) ==
  LET intersection == reference_words \cap doc_words
      union == reference_words \cup doc_words
  IN  IF union # {} THEN <<Cardinality(intersection), Cardinality(union)>> ELSE <<0, 1>>

\* similarity > threshold in place of similarity >= threshold.
is_similar_strictly(reference_words, doc_words, threshold) ==
  LET intersection == reference_words \cap doc_words
      union == reference_words \cup doc_words
  IN  IF union # {}
      THEN Cardinality(intersection) * threshold[2] > threshold[1] * Cardinality(union)
      ELSE 0 > threshold[1]

\* similarity >= threshold
is_similar(reference_words, doc_words, threshold) ==
  LET s == similarity(reference_words, doc_words)
  IN  s[1] * threshold[2] >= threshold[1] * s[2]

\* list(intersection)[:10]
MaxCommonTerms == 10

\* The lists of n different elements of a set: list(s)[:n] is one of them,
\* which one the code does not fix.
RECURSIVE Listings(_, _)
Listings(s, n) ==
  IF n = 0 \/ s = {} THEN {<<>>}
  ELSE UNION {{<<x>> \o l : l \in Listings(s \ {x}, n - 1)} : x \in s}

\* The loop of search_by_similarity over the documents: the result lists it
\* may build.
RECURSIVE SimilarFrom(_, _, _)
SimilarFrom(documents, reference_words, threshold) ==
  IF documents = <<>> THEN {<<>>}
  ELSE LET doc == Head(documents)
           doc_words == ToSet(findall_words(lower(doc.content)))
           rest == SimilarFrom(Tail(documents), reference_words, threshold)
       IN  IF doc_words = {} \/ ~is_similar(reference_words, doc_words, threshold) THEN rest
           ELSE UNION {{<<<<doc.id, doc, _highlight_matches(doc.content, common_terms, FALSE)>>>> \o r :
                          r \in rest} :
                       common_terms \in Listings(reference_words \cap doc_words, MaxCommonTerms)}

\* search_by_similarity that leaves out the documents whose content is the
\* reference itself.
search_by_similarity_others(documents, reference_content, threshold) ==
  IF StripIsEmpty(reference_content) THEN {<<>>}
  ELSE SimilarFrom(SelectSeq(documents, LAMBDA doc : doc.content # reference_content),
                   ToSet(findall_words(lower(reference_content))), threshold)

\* search_by_similarity: the result lists it may return.
search_by_similarity(documents, reference_content, threshold) ==
  IF StripIsEmpty(reference_content) THEN {<<>>}
  ELSE SimilarFrom(documents, ToSet(findall_words(lower(reference_content))), threshold)

\* calculate_similarity of utils.py that takes two texts without word tokens
\* for equal.
calculate_similarity_empty_equal(text1, text2) ==
  LET words1 == ToSet(findall_words(lower(text1)))
      words2 == ToSet(findall_words(lower(text2)))
      union == words1 \cup words2
  IN  IF union = {} THEN <<1, 1>>
      ELSE <<Cardinality(words1 \cap words2), Cardinality(union)>>

\* calculate_similarity of utils.py: the Jaccard similarity of the two token
\* sets as a fraction, 0.0 (<<0, 1>>) when a text or a token set is empty.
calculate_similarity(text1, text2) ==
  IF text1 = "" \/ text2 = "" THEN <<0, 1>>
  ELSE LET words1 == ToSet(findall_words(lower(text1)))
           words2 == ToSet(findall_words(lower(text2)))
           union == words1 \cup words2
       IN  IF words1 = {} \/ words2 = {} THEN <<0, 1>>
           ELSE IF union # {}
                THEN <<Cardinality(words1 \cap words2), Cardinality(union)>>
                ELSE <<0, 1>>

(***************************************************************************)
(* Inputs of the search engine.                                            *)
(***************************************************************************)
\* n copies of s, one after the other.
RECURSIVE Rep(_, _)
Rep(s, n) ==
  IF n = 0 THEN ""
  ELSE LET h == Rep(s, n \div 2) IN h \o h \o (IF n % 2 = 1 THEN s ELSE "")

Queries ==
  {"", " \t", "\"\"", "\" \"", "\"quick fox\" jumps", "cat", "\" cat\"", "Cat mark",
   "alpha beta", "beta \"b", "a\"lph\"a", "zebra", "sat.", "\"a cat\" A"}

CatDoc == Document(1, "Cat facts", "catalog cats", "application/pdf", "Legal")

MarkDoc == Document(2, "Notes", "The Cat sat. A cat mark", "text/plain", "Other")

AlphaDoc == Document(3, "cat", "Alpha beta", "text/plain", "Legal")

FoxDoc == Document(4, "jumps", "the quick fox jumps", "application/pdf", "Sports")

\* A content of 1995 characters with 20 whole-word occurrences of "cat".
LongDoc ==
  Document(5, "Long", Rep("cat ", 20) \o Rep("x", 1915), "text/plain", "Legal")

\* A content of 2100 characters with a full stop at index 1950.
LongerDoc ==
  Document(6, "Longer", "cat " \o Rep("y", 1946) \o ". " \o Rep("z", 148), "text/plain", "Other")

Corpora ==
  {<<>>,
   <<CatDoc, MarkDoc, AlphaDoc, FoxDoc>>,
   <<FoxDoc, CatDoc, CatDoc>>,
   <<MarkDoc, LongDoc>>,
   <<LongerDoc>>}

Scopes == {"Title", "Content", "Both"}

\* The criteria of advanced_search; <<>> and "" for a criterion not given.
IncludeTerms == {<<>>, <<"cat">>, <<"Cat", "SAT">>, <<"cat", " ">>, <<"Cat", "mark">>}

ExcludeTerms == {<<>>, <<"MARK">>, <<"fox", "alpha">>}

CategoryFilters == {"", "Legal"}

FileTypeFilters == {"", "pdf", "text/plain"}

\* The inputs of get_search_suggestions.
TechDoc == Document(7, "Tech", "Technology technical team tea. TEAM", "text/plain", "Technical")

SuggestCorpora == {<<>>, <<TechDoc>>, <<MarkDoc, TechDoc>>, <<CatDoc, AlphaDoc, FoxDoc>>}

Partials == {"", "t", "te", "Te", "team", "ca", "th", "zz"}

SuggestionLimits == {0, 1, 2, DefaultMaxSuggestions}

\* The inputs of search_by_similarity.
DotsDoc == Document(8, "Dots", "...", "text/plain", "Other")

SimilarityCorpora ==
  {<<>>, <<CatDoc, MarkDoc, DotsDoc, AlphaDoc, FoxDoc>>, <<FoxDoc, DotsDoc, AlphaDoc>>, <<TechDoc>>}

References ==
  {"", " \n", "!!", "the quick fox", "Alpha BETA", "fox jumps. the cat sat", "a mark",
   "catalog cats", "..."}

Thresholds == {DefaultThreshold, <<0, 1>>, <<1, 1>>, <<1, 2>>, <<-1, 2>>}

\* Texts around the length limit of 1500 characters: sentence ends at
\* 0-based indexes 1410 and 1498; none at all; one that ends the text; the
\* same after two blanks; one at index 1600 and one at index 1400; blanks
\* before the limit; a blank in front.
LongTexts ==
  {"Hello. World",
   Rep("a", 1500),
   Rep("a", 1410) \o "." \o Rep("b", 87) \o "?" \o Rep("c", 200),
   Rep("a", 1700),
   Rep("a", 1549) \o ".",
   "  " \o Rep("a", 1548) \o ".",
   Rep("a", 1600) \o "." \o Rep("b", 50),
   Rep("a", 1400) \o "!" \o Rep("b", 300),
   Rep("a", 1490) \o Rep(" ", 10) \o Rep("b", 300),
   " " \o Rep("a", 1700),
   Rep("a", 1501) \o "...",
   Rep("a", 2050) \o ". " \o Rep("b", 60)}

MaxLengths == {DefaultMaxLength, HighlightMaxLength}

(***************************************************************************)
(* The calls of the search engine.  They leave the classifier alone.       *)
(***************************************************************************)
ParseQuery(query) ==
  /\ Called("_parse_query", <<query>>, Return(_parse_query(query)))
  /\ UNCHANGED <<categories, category_keywords, model, is_trained, model_file, calls>>

SearchDocuments(documents, query, search_in, case_sensitive) ==
  /\ Called("search_documents", <<documents, query, search_in, case_sensitive>>,
            search_documents(documents, query, search_in, case_sensitive))
  /\ UNCHANGED <<categories, category_keywords, model, is_trained, model_file, calls>>

AdvancedSearch(documents, include_terms, exclude_terms, category, file_type) ==
  /\ Called("advanced_search", <<documents, include_terms, exclude_terms, category, file_type>>,
            advanced_search(documents, include_terms, exclude_terms, category, file_type))
  /\ UNCHANGED <<categories, category_keywords, model, is_trained, model_file, calls>>

GetSearchSuggestions(documents, partial_query, max_suggestions) ==
  /\ pc = "idle"
  /\ \E suggestions \in get_search_suggestions(documents, partial_query, max_suggestions) :
       Called("get_search_suggestions", <<documents, partial_query, max_suggestions>>,
              Return(suggestions))
  /\ UNCHANGED <<categories, category_keywords, model, is_trained, model_file, calls>>

SearchBySimilarity(documents, reference_content, threshold) ==
  /\ pc = "idle"
  /\ \E results \in search_by_similarity(documents, reference_content, threshold) :
       Called("search_by_similarity", <<documents, reference_content, threshold>>,
              Return(results))
  /\ UNCHANGED <<categories, category_keywords, model, is_trained, model_file, calls>>

TruncateContent(content, max_length) ==
  /\ Called("_truncate_content", <<content, max_length>>,
            Return(_truncate_content(content, max_length)))
  /\ UNCHANGED <<categories, category_keywords, model, is_trained, model_file, calls>>

\* calculate_similarity is a function of utils.py; it is called next to the
\* search engine on the same texts.
CalculateSimilarity(text1, text2) ==
  /\ Called("calculate_similarity", <<text1, text2>>, Return(calculate_similarity(text1, text2)))
  /\ UNCHANGED <<categories, category_keywords, model, is_trained, model_file, calls>>

NextSearch ==
  \/ \E query \in Queries : ParseQuery(query)
  \/ \E documents \in Corpora, query \in Queries, search_in \in Scopes, case_sensitive \in BOOLEAN :
       SearchDocuments(documents, query, search_in, case_sensitive)
  \/ \E documents \in Corpora, include_terms \in IncludeTerms, exclude_terms \in ExcludeTerms,
          category \in CategoryFilters, file_type \in FileTypeFilters :
       AdvancedSearch(documents, include_terms, exclude_terms, category, file_type)
  \/ \E documents \in SuggestCorpora, partial_query \in Partials,
          max_suggestions \in SuggestionLimits :
       GetSearchSuggestions(documents, partial_query, max_suggestions)
  \/ \E documents \in SimilarityCorpora, reference_content \in References,
          threshold \in Thresholds :
       SearchBySimilarity(documents, reference_content, threshold)
  \/ \E content \in LongTexts, max_length \in MaxLengths : TruncateContent(content, max_length)
  \/ \E text1 \in References, text2 \in References : CalculateSimilarity(text1, text2)
  \/ Continue

\* The search engine is used next to a classifier that found no model file.
InitSearch == Init /\ model_file = [kind |-> "absent"]

SpecSearch == InitSearch /\ [][NextSearch]_vars

(***************************************************************************)
(* The search page: one SearchEngine serves every request of a caller that *)
(* holds one list of documents, and the searches are put on record.        *)
(***************************************************************************)
RepeatCorpora == {<<CatDoc, MarkDoc>>, <<AlphaDoc, FoxDoc, CatDoc>>}
RepeatQueries == {"cat", "Cat mark", "zebra"}
RepeatPartials == {"ca", "zz"}
RepeatReferences == {"catalog cats", "the quick fox"}

NextRepeat ==
  \/ \E query \in RepeatQueries : ParseQuery(query)
  \/ \E query \in RepeatQueries, search_in \in Scopes, case_sensitive \in BOOLEAN :
       SearchDocuments(doc_list, query, search_in, case_sensitive)
  \/ \E query \in RepeatQueries :
       AdvancedSearch(doc_list, _parse_query(query), <<>>, "", "")
  \/ \E partial_query \in RepeatPartials :
       GetSearchSuggestions(doc_list, partial_query, DefaultMaxSuggestions)
  \/ \E reference_content \in RepeatReferences :
       SearchBySimilarity(doc_list, reference_content, DefaultThreshold)
  \/ Continue

InitRepeat ==
  /\ InitClassifier
  /\ model_file = [kind |-> "absent"]
  /\ doc_list \in RepeatCorpora
  /\ recorded = Recording
  /\ table = {}
  /\ sequence = 0

SpecRepeat == InitRepeat /\ [][NextRepeat]_vars

(***************************************************************************)
(* The document processor (src/document_processor.py).  DocumentProcessor  *)
(* keeps no state.  An uploaded file is a record: its name, its media      *)
(* type, its size, the texts the reading library yields for its pages (or  *)
(* paragraphs), and whether each library can read it.                      *)
(***************************************************************************)
UpperChar(c) ==
  IF \E i \in 1..Len(LowerLetters) : Char(LowerLetters, i) = c
  THEN Char(UpperLetters, CHOOSE i \in 1..Len(LowerLetters) : Char(LowerLetters, i) = c)
  ELSE c

\* c.isupper() and c.islower() of one character.
IsUpperChar(c) == LowerChar(c) # c
IsLowerChar(c) == UpperChar(c) # c

\* str.isupper(): some character is cased and no cased character is lower
\* case; str.islower() likewise.
isupper(s) ==
  /\ \E i \in 1..Len(s) : IsUpperChar(Char(s, i))
  /\ \A i \in 1..Len(s) : ~IsLowerChar(Char(s, i))

islower(s) ==
  /\ \E i \in 1..Len(s) : IsLowerChar(Char(s, i))
  /\ \A i \in 1..Len(s) : ~IsUpperChar(Char(s, i))

\* str.title(): a cased character is upper case after an uncased one (or at
\* the start) and lower case after a cased one.
RECURSIVE TitleFrom(_, _)
TitleFrom(s, i) ==
  IF i > Len(s) THEN ""
  ELSE LET c == Char(s, i)
           after_cased == i > 1 /\ (IsUpperChar(Char(s, i - 1)) \/ IsLowerChar(Char(s, i - 1)))
       IN  (IF after_cased THEN LowerChar(c) ELSE UpperChar(c)) \o TitleFrom(s, i + 1)

title_case(s) == TitleFrom(s, 1)

\* s.split(sep) for a one-character separator: the pieces between the
\* separators, empty pieces included.
RECURSIVE SplitOnFrom(_, _, _)
SplitOnFrom(s, sep, i) ==
  LET j == IndexFrom(s, sep, i)
  IN  IF j = 0 THEN <<SubSeq(s, i, Len(s))>>
      ELSE <<SubSeq(s, i, j - 1)>> \o SplitOnFrom(s, sep, j + 1)

split_on(s, sep) == SplitOnFrom(s, sep, 1)

\* ' '.join(words)
RECURSIVE join(_)
join(words) ==
  IF words = <<>> THEN ""
  ELSE IF Len(words) = 1 THEN words[1]
  ELSE words[1] \o " " \o join(Tail(words))

\* s.strip(chars): the characters of chars removed from both ends.
strip_chars(s, chars) ==
  LET kept == {i \in 1..Len(s) : \A k \in 1..Len(chars) : Char(s, i) # Char(chars, k)}
  IN  IF kept = {} THEN ""
      ELSE SubSeq(s, CHOOSE i \in kept : \A j \in kept : i <= j,
                     CHOOSE i \in kept : \A j \in kept : j <= i)

\* re.sub(r'^(Title:|TITLE:|Subject:|SUBJECT:)', '', title, flags=re.IGNORECASE)
TitlePrefixes == <<"title:", "subject:">>

RemovePrefix(title) ==
  IF \E k \in 1..Len(TitlePrefixes) : startswith(lower(title), TitlePrefixes[k])
  THEN LET k == CHOOSE k \in 1..Len(TitlePrefixes) : startswith(lower(title), TitlePrefixes[k])
       IN  SubSeq(title, Len(TitlePrefixes[k]) + 1, Len(title))
  ELSE title

TitleEdgeChars == " .-_=+"

_clean_title(title) ==
  LET joined == join(split(title))
      bare == RemovePrefix(joined)
      stripped == strip_chars(bare, TitleEdgeChars)
  IN  IF isupper(stripped) \/ islower(stripped) THEN title_case(stripped) ELSE stripped

TitleIndicators == <<"chapter", "section", "introduction", "conclusion", "abstract", "summary">>

CapitalCount(line) == Cardinality({i \in 1..Len(line) : IsUpperChar(Char(line, i))})

_is_likely_title(given) ==
  LET line == strip(given)
  IN  IF Len(line) < 5 \/ Len(line) > 100 THEN FALSE
      ELSE IF isupper(line) THEN TRUE
      ELSE IF \E k \in 1..Len(TitleIndicators) : Contains(lower(line), TitleIndicators[k])
           THEN TRUE
      ELSE /\ Len(split(line)) <= 8
           /\ IsUpperChar(Char(line, 1))
           /\ CapitalCount(line) * 10 > Len(line)

MaxTitleLength == 200

\* Strategy 1 of extract_title: the cleaned first line of more than three
\* characters whose cleaned text is not empty and not too long; <<>> when
\* there is none.
RECURSIVE FirstLineTitle(_)
FirstLineTitle(lines) ==
  IF lines = <<>> THEN <<>>
  ELSE LET line == strip(Head(lines))
           title == _clean_title(line)
       IN  IF line # "" /\ Len(line) > 3 /\ title # "" /\ Len(title) <= MaxTitleLength
           THEN <<title>>
           ELSE FirstLineTitle(Tail(lines))

\* Strategy 2: the same among the lines that look like a title.
RECURSIVE LikelyTitle(_)
LikelyTitle(lines) ==
  IF lines = <<>> THEN <<>>
  ELSE LET line == strip(Head(lines))
           title == _clean_title(line)
       IN  IF line # "" /\ _is_likely_title(line) /\ title # "" /\ Len(title) <= MaxTitleLength
           THEN <<title>>
           ELSE LikelyTitle(Tail(lines))

extract_title(content) ==
  IF StripIsEmpty(content) THEN "Untitled Document"
  ELSE LET lines == split_on(content, "\n")
           first_sentence == strip(split_on(content, ".")[1])
           fallback_title == strip(slice(content, 100))
       IN  IF FirstLineTitle(lines) # <<>> THEN FirstLineTitle(lines)[1]
           ELSE IF LikelyTitle(slice(lines, 10)) # <<>> THEN LikelyTitle(slice(lines, 10))[1]
           ELSE IF first_sentence # "" /\ Len(first_sentence) <= MaxTitleLength
                THEN _clean_title(first_sentence)
           ELSE IF fallback_title # "" THEN _clean_title(fallback_title)
           ELSE "Untitled Document"

\* text += page.extract_text() + "\n" over the pages.
RECURSIVE TextOfPages(_)
TextOfPages(pages) ==
  IF pages = <<>> THEN "" ELSE Head(pages) \o "\n" \o TextOfPages(Tail(pages))

\* The same for the pages that have text (the pdfplumber loop).
RECURSIVE TextOfFilledPages(_)
TextOfFilledPages(pages) ==
  IF pages = <<>> THEN ""
  ELSE (IF Head(pages) # "" THEN Head(pages) \o "\n" ELSE "") \o TextOfFilledPages(Tail(pages))

\* PyPDF2 reads the file or fails on opening it; pdfplumber then reads it,
\* fails as well or is not installed.
_extract_text_from_pdf(file) ==
  IF file.reader = "ok" THEN Return(strip(TextOfPages(file.pages)))
  ELSE IF file.plumber = "ok" THEN Return(strip(TextOfFilledPages(file.pages)))
  ELSE Raise("Exception")

\* The pages of a Word file are its paragraphs; it has no tables.
_extract_text_from_word(file) ==
  IF file.reader = "ok" THEN Return(strip(TextOfPages(file.pages)))
  ELSE Raise("Exception")

\* os.path.splitext(file_path)[1].lower(): from the last dot on.
Extension(name) ==
  LET dots == {i \in 2..Len(name) : Char(name, i) = "."}
  IN  IF dots = {} THEN ""
      ELSE lower(SubSeq(name, CHOOSE i \in dots : \A j \in dots : j <= i, Len(name)))

extract_text(file) ==
  LET file_extension == Extension("temp_" \o file.name)
  IN  IF file_extension = ".pdf" THEN _extract_text_from_pdf(file)
      ELSE IF file_extension \in {".docx", ".doc"} THEN _extract_text_from_word(file)
      ELSE Raise("ValueError")

(***************************************************************************)
(* The document store (src/database_manager.py, class DatabaseManager; the *)
(* statements of src/database.py, class DocumentDatabase, are the same).   *)
(* table is the set of rows of the documents table; a row keeps the        *)
(* columns the operations below read or write.  upload_date,               *)
(* processing_time and file_data are written once by add_document and read *)
(* by none of them.                                                        *)
(***************************************************************************)
Row(id, filename, title, content, file_size, file_type, category) ==
  [id |-> id, filename |-> filename, title |-> title, content |-> content,
   file_size |-> file_size, file_type |-> file_type, category |-> category]

Ids(rows) == {row.id : row \in rows}

MaxId(rows) == IF rows = {} THEN 0 ELSE CHOOSE i \in Ids(rows) : \A j \in Ids(rows) : j <= i

\* The id of a new row.  A table created by DatabaseManager has an INTEGER
\* PRIMARY KEY and gives the largest id in the table plus one; a table
\* created by DocumentDatabase is AUTOINCREMENT and gives the largest id it
\* ever gave plus one.  documents.db may hold either.
NewIds(rows, highest) == {MaxId(rows) + 1, highest + 1}

add_document(rows, doc_id, filename, title, content, file_size, file_type, category) ==
  rows \cup {Row(doc_id, filename, title, content, file_size, file_type, category)}

\* query(Document).filter(Document.id == doc_id).first(); None when absent.
get_document(rows, doc_id) ==
  IF doc_id \in Ids(rows) THEN CHOOSE row \in rows : row.id = doc_id ELSE "None"

\* update_document_category.  The variant is an UPDATE without its WHERE
\* clause.
update_document_category_all(rows, doc_id, category) ==
  {[row EXCEPT !.category = category] : row \in rows}
update_document_category(rows, doc_id, category) ==
  {IF row.id = doc_id THEN [row EXCEPT !.category = category] ELSE row : row \in rows}

\* delete_document: the rows left and the value returned.
delete_document(rows, doc_id) ==
  IF doc_id \in Ids(rows) THEN <<{row \in rows : row.id # doc_id}, TRUE>>
  ELSE <<rows, FALSE>>

\* The largest id the model lets the table hand out.
MaxDocuments == 2

ClassifierAside == UNCHANGED <<categories, category_keywords, model, is_trained, model_file, calls>>

AddDocument(filename, title, content, file_size, file_type, category) ==
  /\ pc = "idle"
  /\ \E doc_id \in NewIds(table, sequence) :
       /\ doc_id <= MaxDocuments
       /\ Answered("add_document", <<filename, title, content, file_size, file_type, category>>,
                   Return(doc_id))
       /\ table' = add_document(table, doc_id, filename, title, content, file_size, file_type,
                                category)
       /\ sequence' = IF doc_id > sequence THEN doc_id ELSE sequence
  /\ UNCHANGED doc_list
  /\ ClassifierAside

GetDocument(doc_id) ==
  /\ Answered("get_document", <<doc_id>>, Return(get_document(table, doc_id)))
  /\ UNCHANGED <<table, sequence, doc_list>>
  /\ ClassifierAside

UpdateDocumentCategory(doc_id, category) ==
  /\ Answered("update_document_category", <<doc_id, category>>, Return("None"))
  /\ table' = update_document_category(table, doc_id, category)
  /\ UNCHANGED <<sequence, doc_list>>
  /\ ClassifierAside

DeleteDocument(doc_id) ==
  /\ Answered("delete_document", <<doc_id>>, Return(delete_document(table, doc_id)[2]))
  /\ table' = delete_document(table, doc_id)[1]
  /\ UNCHANGED <<sequence, doc_list>>
  /\ ClassifierAside

(***************************************************************************)
(* The upload page (src/app.py, upload_page): one step per uploaded file.  *)
(* Any exception of the steps is caught and shown as an error; otherwise   *)
(* the document is stored and the success message is shown.                *)
(***************************************************************************)
UploadDocument(file) ==
  LET text_content == extract_text(file)
      title == extract_title(text_content.value)
      category == classify_document(text_content.value, category_keywords)
  IN  /\ pc = "idle"
      /\ IF text_content.raised
         THEN /\ Answered("upload", <<file>>, text_content)
              /\ UNCHANGED <<table, sequence>>
         ELSE IF category.raised
         THEN /\ Answered("upload", <<file>>, category)
              /\ UNCHANGED <<table, sequence>>
         ELSE \E doc_id \in NewIds(table, sequence) :
                /\ doc_id <= MaxDocuments
                /\ Answered("upload", <<file>>, Return("success"))
                /\ table' = add_document(table, doc_id, file.name, title, text_content.value,
                                         file.size, file.type, category.value)
                /\ sequence' = IF doc_id > sequence THEN doc_id ELSE sequence
      /\ UNCHANGED doc_list
      /\ ClassifierAside

ExtractTitle(content) ==
  /\ Called("extract_title", <<content>>, Return(extract_title(content)))
  /\ ClassifierAside

PdfType == "application/pdf"
WordType == "application/vnd.openxmlformats-officedocument.wordprocessingml.document"

File(name, type, size, pages, reader, plumber) ==
  [name |-> name, type |-> type, size |-> size, pages |-> pages, reader |-> reader,
   plumber |-> plumber]

Files ==
  {File("report.pdf", PdfType, 40, <<"Annual Report", "the contract and the court">>, "ok", "ok"),
   File("scan.PDF", PdfType, 900, <<"", "">>, "ok", "ok"),
   File("rule.pdf", PdfType, 12, <<"----">>, "ok", "ok"),
   File("dots.pdf", PdfType, 9, <<" .-">>, "ok", "ok"),
   File("broken.pdf", PdfType, 3, <<"lost">>, "fails", "fails"),
   File("bare.pdf", PdfType, 3, <<"lost">>, "fails", "missing"),
   File("notes.pdf", PdfType, 25, <<"", "TITLE: MEETING NOTES", "the team won the match">>,
        "fails", "ok"),
   File("memo.docx", WordType, 30, <<"subject: budget", "tax and revenue">>, "ok", "ok"),
   File("old.doc", "application/msword", 30, <<"memo">>, "fails", "ok")}

TitleContents ==
  {"", " \n", "--", "----", ".-", "Title:", "ab", "TITLE: MEETING NOTES", "abc. def",
   "x\nINTRODUCTION", "a b\n=== Chapter One ===", "the McKay report"}

NextIngest ==
  \/ \E file \in Files : UploadDocument(file)
  \/ \E content \in TitleContents : ExtractTitle(content)
  \/ \E doc_id \in 1..MaxDocuments : GetDocument(doc_id)
  \/ Continue

InitIngest == Init /\ model_file = [kind |-> "absent"]

SpecIngest == InitIngest /\ [][NextIngest]_vars

(***************************************************************************)
(* The store under its own operations.                                     *)
(***************************************************************************)
StoredCategories == {"Legal", "Other"}

Stored ==
  {<<"report.pdf", "Annual Report", "the contract", 40, PdfType, "Legal">>,
   <<"memo.docx", "Budget", "tax and revenue", 30, WordType, "Other">>}

NextStore ==
  \/ \E d \in Stored : AddDocument(d[1], d[2], d[3], d[4], d[5], d[6])
  \/ \E doc_id \in 1..(MaxDocuments + 1) : GetDocument(doc_id)
  \/ \E doc_id \in 1..(MaxDocuments + 1), category \in StoredCategories :
       UpdateDocumentCategory(doc_id, category)
  \/ \E doc_id \in 1..(MaxDocuments + 1) : DeleteDocument(doc_id)
  \/ Continue

SpecStore == InitIngest /\ [][NextStore]_vars
(***************************************************************************)
(* Properties.                                                             *)
(***************************************************************************)
Returned(name) == pc = "returned" /\ op = name

\* The position of a category in the enumeration, 0 when it is not there.
PositionIn(l, x) == IF InList(l, x) THEN CHOOSE i \in 1..Len(l) : l[i] = x ELSE 0

SomeListEmpty == \E i \in 1..Len(category_keywords) : category_keywords[i][2] = <<>>

\* The reference scoring, stated on the text itself: a keyword is a whole
\* token when it occurs between two non-word characters (or the ends) and is
\* made of word characters; its occurrences are the positions where it
\* occurs as a substring.
IsWordAt(s, i) == i >= 1 /\ i <= Len(s) /\ Char(s, i) \in WordChars

RefIsToken(s, w) ==
  /\ w # ""
  /\ \E i \in 1..(Len(s) - Len(w) + 1) :
       /\ SubSeq(s, i, i + Len(w) - 1) = w
       /\ \A k \in i..(i + Len(w) - 1) : IsWordAt(s, k)
       /\ ~IsWordAt(s, i - 1)
       /\ ~IsWordAt(s, i + Len(w))

RefOccurrences(s, w) ==
  Cardinality({i \in 1..(Len(s) - Len(w) + 1) : SubSeq(s, i, i + Len(w) - 1) = w})

RECURSIVE RefRaw2(_, _, _)
RefRaw2(keywords, s, i) ==
  IF i = 0 THEN 0
  ELSE RefRaw2(keywords, s, i - 1)
       + (IF RefIsToken(s, keywords[i]) THEN 2 ELSE 0) + RefOccurrences(s, keywords[i])

RECURSIVE RefScoresFrom(_, _, _)
RefScoresFrom(ck, s, i) ==
  IF i = 0 THEN <<>>
  ELSE Append(RefScoresFrom(ck, s, i - 1),
              <<RefRaw2(ck[i][2], s, Len(ck[i][2])), 2 * Len(ck[i][2])>>)

RefScores(content, ck) == RefScoresFrom(ck, lower(content), Len(ck))

IsMaximal(scores, i) == \A j \in 1..Len(scores) : ~FracGT(scores[j], scores[i])

\* The results the reference allows: a category of maximal normalized score
\* when that score exceeds 0.1, 'Other' otherwise.
RefResults(ck, scores) ==
  IF \E i \in 1..Len(scores) : FracGT(scores[i], Threshold)
  THEN {ck[i][1] : i \in {j \in 1..Len(scores) : IsMaximal(scores, j)}}
  ELSE {"Other"}

\* C1: classify_document(content) returns the reference result for every
\* content and every keyword mapping: the category of maximal normalized
\* score (raw score over keyword count) when that score exceeds 0.1, 'Other'
\* otherwise.
C1_ReferenceResult ==
  Returned("classify_document") =>
    /\ ~ret.raised
    /\ ret.value \in RefResults(category_keywords, RefScores(arg[1], category_keywords))

\* The same statement where every category has a keyword: it is only the
\* division by an empty list's length that separates the code from C1.
C1_WhereDefined ==
  (Returned("classify_document") /\ ~SomeListEmpty) =>
    /\ ~ret.raised
    /\ ret.value \in RefResults(category_keywords, RefScores(arg[1], category_keywords))

\* C2: for every content that is empty or only whitespace, classify_document
\* returns 'Other', whatever keywords were added before.
C2_BlankIsOther ==
  (Returned("classify_document") /\ StripIsEmpty(arg[1])) => ret = Return("Other")

C2_Witness ==
  /\ Returned("classify_document")
  /\ arg[1] = " \n"
  /\ SomeListEmpty
  /\ HasKey(category_keywords, "Other")
  /\ ret = Return("Other")

\* C3: in every state reachable by add_category_keywords calls,
\* classify_document returns a category and never raises.
C3_NeverRaises ==
  Returned("classify_document") => (~ret.raised /\ InList(categories, ret.value))

\* C4: when several categories tie for the maximum normalized score,
\* classify_document returns the one that comes first in get_categories().
C4_TieBreak ==
  (Returned("classify_document") /\ ~ret.raised /\ ~StripIsEmpty(arg[1])) =>
    LET scores == RefScores(arg[1], category_keywords)
    IN  (\E i \in 1..Len(scores) : FracGT(scores[i], Threshold)) =>
          \A i \in 1..Len(scores) :
            IsMaximal(scores, i) =>
              PositionIn(get_categories, ret.value)
                <= PositionIn(get_categories, category_keywords[i][1])

\* The order of the keyword mapping agrees with the enumeration.
OrderAgrees ==
  \A i, j \in 1..Len(category_keywords) :
    i < j => PositionIn(categories, category_keywords[i][1])
               < PositionIn(categories, category_keywords[j][1])

\* C5: the enumeration holds no name twice and holds every category that has
\* a keyword list; add_category_keywords appends to the list of a category
\* that has one, and otherwise creates the list and registers the name once.
NoDuplicates(l) == \A i, j \in 1..Len(l) : l[i] = l[j] => i = j

C5_Enumeration ==
  /\ NoDuplicates(get_categories)
  /\ NoDuplicates(Keys(category_keywords))
  /\ \A i \in 1..Len(category_keywords) : InList(get_categories, category_keywords[i][1])

C5_AddStep ==
  (pc = "idle" /\ pc' = "returned" /\ op' = "add_category_keywords") =>
    LET category == arg'[1]
        keywords == arg'[2]
    IN  /\ HasKey(category_keywords', category)
        /\ IF HasKey(category_keywords, category)
           THEN /\ Get(category_keywords', category) = Get(category_keywords, category) \o keywords
                /\ categories' = categories
           ELSE /\ Get(category_keywords', category) = keywords
                /\ Cardinality({i \in 1..Len(categories') : categories'[i] = category}) = 1

C5_NoDuplicateCategory == [](C5_Enumeration) /\ [][C5_AddStep]_vars

C5_Witness ==
  /\ Returned("add_category_keywords")
  /\ arg[1] = "Other"
  /\ calls = 2
  /\ Get(category_keywords, "Other") = <<"zq", "zq">>

C7_ConfidenceAgrees ==
  (Returned("classify_document") /\ ~StripIsEmpty(arg[1])) =>
    LET confidence == get_classification_confidence(arg[1], category_keywords)
    IN  /\ (~ret.raised /\ ret.value # "Other") =>
             /\ HasKey(confidence, ret.value)
             /\ FracGT(Get(confidence, ret.value), Threshold)
             /\ \A i \in 1..Len(confidence) :
                  ~FracGT(confidence[i][2], Get(confidence, ret.value))
        /\ (\A i \in 1..Len(confidence) : ~FracGT(confidence[i][2], Threshold)) =>
             ret = Return("Other")

\* C8: with the built-in keyword table, the legal sample is classified Legal,
\* the sports sample Sports and the medical sample Medical or Healthcare.
C8_BuiltinSamples ==
  (Returned("classify_document") /\ category_keywords = InitCategoryKeywords) =>
    /\ arg[1] = "legal contract clause liability" => ret = Return("Legal")
    /\ arg[1] = "football match tournament league" => ret = Return("Sports")
    /\ arg[1] = "patient diagnosis treatment hospital" =>
         ret \in {Return("Medical"), Return("Healthcare")}

C8_Witness ==
  /\ Returned("classify_document")
  /\ category_keywords = InitCategoryKeywords
  /\ arg[1] = "patient diagnosis treatment hospital"
  /\ ret = Return("Medical")

\* C9: train_classifier returns False and fits no model whenever fewer than
\* 10 of the documents carry a category or the categorized documents span
\* fewer than 2 categories.
Insufficient(documents) ==
  \/ Cardinality({i \in 1..Len(documents) : documents[i].category # ""}) < MinDocuments
  \/ Cardinality({documents[i].category : i \in 1..Len(documents)} \ {""}) < MinLabels

C9_TrainStep ==
  (pc = "idle" /\ pc' = "returned" /\ op' = "train_classifier" /\ Insufficient(arg'[1])) =>
    /\ ret' = Return(FALSE)
    /\ model' = model
    /\ is_trained' = is_trained

C9_InsufficientData == [][C9_TrainStep]_vars

\* C10: classify_document returns what keyword classification returns for
\* the current keyword mapping, whatever model and is_trained are.
C10_KeywordPathCanonical ==
  Returned("classify_document") =>
    ret = IF StripIsEmpty(arg[1]) THEN Return("Other")
          ELSE _classify_by_keywords(arg[1], category_keywords)

\* A classification made while a fitted model is loaded, of a document the
\* keyword path puts in another category than the model would.
C10_Witness ==
  /\ Returned("classify_document")
  /\ is_trained
  /\ model.kind = "Pipeline"
  /\ model.fitted
  /\ ~StripIsEmpty(arg[1])
  /\ ~ret.raised
  /\ ret.value \notin model.classes

\* C11: whenever train_classifier returns False, no exception reaches the
\* caller and model and is_trained keep the values they had before the call.
C11_FailedStep ==
  (pc = "idle" /\ pc' = "returned" /\ op' = "train_classifier" /\ ret'.value = FALSE) =>
    /\ ~ret'.raised
    /\ model' = model
    /\ is_trained' = is_trained

C11_FailedTrainingRestores == [][C11_FailedStep]_vars

\* The quoted spans of a query, read off the positions of its quotes: the
\* k-th span lies between the (2k-1)-th and the 2k-th quote.
QuotePositions(query) == {i \in 1..Len(query) : Char(query, i) = "\""}

NthQuote(query, n) ==
  CHOOSE i \in QuotePositions(query) :
    Cardinality({j \in QuotePositions(query) : j < i}) = n - 1

SpanCount(query) == Cardinality(QuotePositions(query)) \div 2

RefSpans(query) ==
  [k \in 1..SpanCount(query) |->
     SubSeq(query, NthQuote(query, 2 * k - 1) + 1, NthQuote(query, 2 * k) - 1)]

InSpan(query, i) ==
  \E k \in 1..SpanCount(query) : NthQuote(query, 2 * k - 1) <= i /\ i <= NthQuote(query, 2 * k)

\* The query with the quoted spans removed.
RECURSIVE RefRemaining(_, _)
RefRemaining(query, i) ==
  IF i > Len(query) THEN ""
  ELSE (IF InSpan(query, i) THEN "" ELSE Char(query, i)) \o RefRemaining(query, i + 1)

\* The whitespace-separated words of s: the k-th word starts at the k-th
\* position that follows whitespace (or the start) and is not whitespace.
WordStarts(s) ==
  {i \in 1..Len(s) : Char(s, i) \notin Whitespace /\ (i = 1 \/ Char(s, i - 1) \in Whitespace)}

WordEnd(s, i) ==
  CHOOSE j \in i..Len(s) :
    /\ \A k \in i..j : Char(s, k) \notin Whitespace
    /\ (j = Len(s) \/ Char(s, j + 1) \in Whitespace)

RefWords(s) ==
  [k \in 1..Cardinality(WordStarts(s)) |->
     LET i == CHOOSE i \in WordStarts(s) : Cardinality({j \in WordStarts(s) : j < i}) = k - 1
     IN  SubSeq(s, i, WordEnd(s, i))]

RefTerms(query) == RefSpans(query) \o RefWords(RefRemaining(query, 1))

NonBlank(term) == ~StripIsEmpty(term)

\* The contents of the quoted spans as they stand, then the words, blank
\* terms dropped.
C12_ParseQueryVerbatim ==
  Returned("_parse_query") => ret = Return(SelectSeq(RefTerms(arg[1]), NonBlank))

\* s without its leading and trailing whitespace: the substring from its
\* first to its last character that is not whitespace.
RefTrimmed(s) ==
  LET solid == {i \in 1..Len(s) : Char(s, i) \notin Whitespace}
  IN  IF solid = {} THEN ""
      ELSE SubSeq(s, CHOOSE i \in solid : \A j \in solid : i <= j,
                     CHOOSE i \in solid : \A j \in solid : j <= i)

RefTrimmedTerms(terms) == [k \in 1..Len(terms) |-> RefTrimmed(terms[k])]

\* C12: _parse_query returns the contents of the quoted spans, left to
\* right and each without its leading and trailing whitespace, followed by
\* the whitespace-separated words of the query with the spans removed, blank
\* terms dropped; '"quick fox" jumps' yields ["quick fox", "jumps"] and the
\* empty query yields the empty list.
C12_ParseQuery ==
  /\ Returned("_parse_query") =>
       ret = Return(RefTrimmedTerms(SelectSeq(RefTerms(arg[1]), NonBlank)))
  /\ (Returned("_parse_query") /\ arg[1] = "\"quick fox\" jumps") =>
       ret = Return(<<"quick fox", "jumps">>)
  /\ (Returned("_parse_query") /\ arg[1] = "") => ret = Return(<<>>)

\* A phrase with a leading space has been parsed.
C12_Witness ==
  /\ Returned("_parse_query")
  /\ arg[1] = "\" cat\""
  /\ ret = Return(<<"cat">>)

\* term occurs in text: some stretch of text is term.
OccursIn(term, text) ==
  \E i \in 0..(Len(text) - Len(term)) : SubSeq(text, i + 1, i + Len(term)) = term

\* The searchable text of a document under a scope.
RefSearchable(doc, scope) ==
  CASE scope = "Title" -> doc.title
    [] scope = "Content" -> doc.content
    [] scope = "Both" -> doc.title \o " " \o doc.content

RefFold(s, case_sensitive) == IF case_sensitive THEN s ELSE lower(s)

RefMatches(doc, terms, scope, case_sensitive) ==
  \A k \in 1..Len(terms) :
    OccursIn(RefFold(terms[k], case_sensitive), RefFold(RefSearchable(doc, scope), case_sensitive))

\* The documents of a result list, in the order of the list.
ResultDocs(results) == [k \in 1..Len(results) |-> results[k][2]]

\* C13: for a query that parses to at least one term, search_documents
\* returns exactly the documents in which every parsed term is a substring
\* of the searchable text (lowercased unless case_sensitive), once each and
\* in the order of the input list.
C13_SearchIsFilter ==
  (Returned("search_documents") /\ _parse_query(arg[2]) # <<>>) =>
    /\ ~ret.raised
    /\ ResultDocs(ret.value) =
         SelectSeq(arg[1], LAMBDA doc : RefMatches(doc, _parse_query(arg[2]), arg[3], arg[4]))
    /\ \A k \in 1..Len(ret.value) : ret.value[k][1] = ret.value[k][2].id

\* Two terms, matched without regard to case, select one of four documents.
C13_Witness ==
  /\ Returned("search_documents")
  /\ arg = <<<<CatDoc, MarkDoc, AlphaDoc, FoxDoc>>, "alpha beta", "Content", FALSE>>
  /\ ResultDocs(ret.value) = <<AlphaDoc>>

\* C14: search_documents returns the empty list, and raises nothing, for a
\* query that is empty, whitespace-only or parses to no term, whatever the
\* documents, the scope and the case flag.
C14_EmptyQuery ==
  (Returned("search_documents") /\ (StripIsEmpty(arg[2]) \/ _parse_query(arg[2]) = <<>>)) =>
    ret = Return(<<>>)

\* A query that is not blank and parses to no term met a corpus of four.
C14_Witness ==
  /\ Returned("search_documents")
  /\ arg[2] = "\"\""
  /\ Len(arg[1]) = 4
  /\ ret = Return(<<>>)

\* term stands at position p of text, up to letter case unless
\* case_sensitive, with a word character on exactly one side of its first
\* edge and on exactly one side of its last edge.
RefIsWord(text, p) == p >= 1 /\ p <= Len(text) /\ Char(text, p) \in WordChars

RefStandsAt(text, term, case_sensitive, p) ==
  /\ p >= 1
  /\ p + Len(term) - 1 <= Len(text)
  /\ RefIsWord(text, p - 1) # RefIsWord(text, p)
  /\ RefIsWord(text, p + Len(term) - 1) # RefIsWord(text, p + Len(term))
  /\ RefFold(SubSeq(text, p, p + Len(term) - 1), case_sensitive) = RefFold(term, case_sensitive)

\* The occurrence at p is wrapped unless an occurrence that starts earlier
\* and reaches into it is wrapped.
RECURSIVE RefWrapped(_, _, _, _)
RefWrapped(text, term, case_sensitive, p) ==
  /\ RefStandsAt(text, term, case_sensitive, p)
  /\ \A q \in (p - Len(term) + 1)..(p - 1) : ~RefWrapped(text, term, case_sensitive, q)

\* The characters lo..hi of text, each wrapped occurrence of term between
\* the two tags, the characters themselves untouched.
RECURSIVE RefMarked(_, _, _, _, _)
RefMarked(text, term, case_sensitive, lo, hi) ==
  IF lo > hi THEN ""
  ELSE IF lo = hi
       THEN (IF RefWrapped(text, term, case_sensitive, lo) THEN MarkOpen ELSE "")
              \o Char(text, lo)
              \o (IF RefWrapped(text, term, case_sensitive, lo - Len(term) + 1)
                  THEN MarkClose ELSE "")
       ELSE LET mid == (lo + hi) \div 2
            IN  RefMarked(text, term, case_sensitive, lo, mid)
                  \o RefMarked(text, term, case_sensitive, mid + 1, hi)

\* One term after the other, each on the text as the terms before left it.
RECURSIVE RefHighlighted(_, _, _, _)
RefHighlighted(text, terms, k, case_sensitive) ==
  IF k > Len(terms) THEN text
  ELSE RefHighlighted(RefMarked(text, terms[k], case_sensitive, 1, Len(text)),
                      terms, k + 1, case_sensitive)

\* C15: a document that contains a term only inside a longer word ("catalog
\* cats", term "cat") is returned, and its excerpt has no highlight mark; the
\* highlighter wraps exactly the occurrences of a term that are delimited by
\* word boundaries and keeps the casing of the matched text.
C15_WholeWordHighlight ==
  Returned("search_documents") =>
    /\ (arg[2] = "cat" /\ arg[3] = "Content") =>
         \A i \in 1..Len(arg[1]) :
           arg[1][i] = CatDoc => \E k \in 1..Len(ret.value) : ret.value[k] = <<1, CatDoc, "catalog cats">>
    /\ \A k \in 1..Len(ret.value) :
         LET marked == RefHighlighted(ret.value[k][2].content, _parse_query(arg[2]), 1, arg[4])
         IN  Len(marked) <= HighlightMaxLength => ret.value[k][3] = marked

\* "cat" found "catalog cats" and left it unmarked, and marked "Cat" and
\* "cat" in another document.
C15_Witness ==
  /\ Returned("search_documents")
  /\ arg = <<<<CatDoc, MarkDoc, AlphaDoc, FoxDoc>>, "cat", "Content", FALSE>>
  /\ ret.value[1] = <<1, CatDoc, "catalog cats">>
  /\ ret.value[2][3] = "The " \o MarkOpen \o "Cat" \o MarkClose \o " sat. A "
                         \o MarkOpen \o "cat" \o MarkClose \o " mark"

\* C16: the excerpt of a returned document whose content has at most 2000
\* characters is the whole highlighted content: nothing is cut off and no
\* ellipsis is appended, however many marks were inserted.
C16_ShortContentUncut ==
  Returned("search_documents") =>
    \A k \in 1..Len(ret.value) :
      Len(ret.value[k][2].content) <= HighlightMaxLength =>
        ret.value[k][3] = RefHighlighted(ret.value[k][2].content, _parse_query(arg[2]), 1, arg[4])

\* A document passes the criteria that are given.
RefPasses(doc, include_terms, exclude_terms, category, file_type) ==
  LET text == lower(doc.title \o " " \o doc.content)
  IN  /\ category # "" => doc.category = category
      /\ file_type # "" => OccursIn(file_type, doc.file_type)
      /\ \A k \in 1..Len(include_terms) : OccursIn(lower(include_terms[k]), text)
      /\ \A k \in 1..Len(exclude_terms) : ~OccursIn(lower(exclude_terms[k]), text)

\* C17: advanced_search returns, in input order, exactly the documents that
\* pass all the criteria given: the category equals the document's, the file
\* type is a substring of the document's media type, every include term and
\* no exclude term is a substring of the lowercased title and content; the
\* excerpt is highlighted with the include terms (a blank term marks
\* nothing), or with none when there are none.
C17_AdvancedIsFilter ==
  Returned("advanced_search") =>
    /\ ~ret.raised
    /\ ResultDocs(ret.value) =
         SelectSeq(arg[1], LAMBDA doc : RefPasses(doc, arg[2], arg[3], arg[4], arg[5]))
    /\ \A k \in 1..Len(ret.value) :
         LET content == ret.value[k][2].content
             marked == RefHighlighted(content, SelectSeq(arg[2], NonBlank), 1, FALSE)
         IN  /\ ret.value[k][1] = ret.value[k][2].id
             /\ (arg[2] = <<>> /\ Len(content) <= DefaultMaxLength) => ret.value[k][3] = content
             /\ (arg[2] # <<>> /\ Len(marked) <= HighlightMaxLength) => ret.value[k][3] = marked

\* Every kind of criterion was given and one document of four passed.
C17_Witness ==
  /\ Returned("advanced_search")
  /\ arg = <<<<CatDoc, MarkDoc, AlphaDoc, FoxDoc>>, <<"cat">>, <<"fox", "alpha">>, "Legal", "pdf">>
  /\ ret.value = <<<<1, CatDoc, "catalog cats">>>>

\* a comes before b in lexicographic order: at the first place where they
\* differ, a has ended or has the smaller character.
RefBefore(a, b) ==
  \E k \in 1..Len(b) :
    /\ \A j \in 1..(k - 1) : j <= Len(a) /\ Char(a, j) = Char(b, j)
    /\ (k > Len(a) \/ ord(Char(a, k)) < ord(Char(b, k)))

RefAscending(l) == \A i, j \in 1..Len(l) : i < j => RefBefore(l[i], l[j])

\* The suggestions are tokens of the contents as they stand and begin with
\* partial_term as it stands.
C18_SuggestionsVerbatim ==
  Returned("get_search_suggestions") =>
    IF Len(arg[2]) < MinPartialLength THEN ret = Return(<<>>)
    ELSE /\ ~ret.raised
         /\ Len(ret.value) <= arg[3]
         /\ RefAscending(ret.value)
         /\ \A i \in 1..Len(ret.value) :
              /\ \E d \in 1..Len(arg[1]) : RefIsToken(arg[1][d].content, ret.value[i])
              /\ Len(ret.value[i]) > Len(arg[2])
              /\ SubSeq(ret.value[i], 1, Len(arg[2])) = arg[2]

\* C18: get_search_suggestions returns the empty list when partial_term has
\* fewer than 2 characters; otherwise at most max_suggestions strings,
\* without duplicates, in ascending lexicographic order, each a word token of
\* some document's lowercased content, strictly longer than partial_term and
\* beginning with the lowercased partial_term.
C18_Suggestions ==
  Returned("get_search_suggestions") =>
    IF Len(arg[2]) < MinPartialLength THEN ret = Return(<<>>)
    ELSE /\ ~ret.raised
         /\ Len(ret.value) <= arg[3]
         /\ RefAscending(ret.value)
         /\ \A i \in 1..Len(ret.value) :
              /\ \E d \in 1..Len(arg[1]) : RefIsToken(lower(arg[1][d].content), ret.value[i])
              /\ Len(ret.value[i]) > Len(arg[2])
              /\ SubSeq(ret.value[i], 1, Len(arg[2])) = lower(arg[2])

\* Four tokens qualified, among them the lowered form of "Technology".
C18_Witness ==
  /\ Returned("get_search_suggestions")
  /\ arg = <<<<TechDoc>>, "te", DefaultMaxSuggestions>>
  /\ ret.value = <<"tea", "team", "technical", "technology">>

\* Every suggestion starts with partial_term in the same letter case.
C19_PrefixCaseSensitive ==
  Returned("get_search_suggestions") =>
    \A i \in 1..Len(ret.value) : SubSeq(ret.value[i], 1, Len(arg[2])) = arg[2]

\* C19: the prefix test of get_search_suggestions ignores the letter case of
\* partial_term: every suggestion starts with the lowercased partial_term,
\* the list returned is one that the lowercased partial_term may return, and
\* "Te" against the token "technology" suggests "technology".
C19_PrefixIgnoresCase ==
  Returned("get_search_suggestions") =>
    /\ \A i \in 1..Len(ret.value) : SubSeq(ret.value[i], 1, Len(arg[2])) = lower(arg[2])
    /\ ret.value \in get_search_suggestions(arg[1], lower(arg[2]), arg[3])
    /\ (arg = <<<<TechDoc>>, "Te", DefaultMaxSuggestions>>) =>
         \E i \in 1..Len(ret.value) : ret.value[i] = "technology"

\* "Te" was asked for and "technology" suggested.
C19_Witness ==
  /\ Returned("get_search_suggestions")
  /\ arg[2] = "Te"
  /\ \E i \in 1..Len(ret.value) : ret.value[i] = "technology"

\* The word tokens of the lowered text, read off the text: the stretches of
\* word characters with no word character on either side.
RefTokens(s) ==
  LET text == lower(s)
  IN  {SubSeq(text, i, j) : <<i, j>> \in
         {p \in (1..Len(text)) \X (1..Len(text)) :
            /\ p[1] <= p[2]
            /\ \A k \in p[1]..p[2] : IsWordAt(text, k)
            /\ ~IsWordAt(text, p[1] - 1)
            /\ ~IsWordAt(text, p[2] + 1)}}

\* The Jaccard similarity of two token sets as <<numerator, denominator>>:
\* 0 when either set is empty.
RefJaccard(a, b) ==
  IF a = {} \/ b = {} THEN <<0, 1>>
  ELSE <<Cardinality(a \cap b), Cardinality(a \cup b)>>

RefAtLeast(jaccard, threshold) ==
  jaccard[1] * threshold[2] >= threshold[1] * jaccard[2]

IsReturned(doc) == \E k \in 1..Len(ret.value) : ret.value[k][2] = doc

\* Also a document without a word token finds itself.
C21_SelfSimilarAny ==
  (Returned("search_by_similarity") /\ arg[3] = DefaultThreshold) =>
    \A i \in 1..Len(arg[1]) : arg[1][i].content = arg[2] => IsReturned(arg[1][i])

\* C21: search_by_similarity with a reference text identical to the content
\* of a document of the list that has at least one word token, and the
\* default threshold, returns that document.
C21_SelfSimilar ==
  (Returned("search_by_similarity") /\ arg[3] = DefaultThreshold) =>
    \A i \in 1..Len(arg[1]) :
      (arg[1][i].content = arg[2] /\ RefTokens(arg[2]) # {}) => IsReturned(arg[1][i])

\* The content of a document of the list was the reference and the document
\* came back.
C21_Witness ==
  /\ Returned("search_by_similarity")
  /\ arg = <<<<CatDoc, MarkDoc, DotsDoc, AlphaDoc, FoxDoc>>, "catalog cats", DefaultThreshold>>
  /\ ResultDocs(ret.value) = <<CatDoc>>

\* A fraction between 0 and 1.
InUnitInterval(f) == f[2] > 0 /\ 0 <= f[1] /\ f[1] <= f[2]

\* C22: the Jaccard similarity computed by calculate_similarity and by
\* search_by_similarity lies between 0.0 and 1.0, and calculate_similarity
\* returns 0.0 when either text is empty or has no word token.
C22_SimilarityBounds ==
  /\ Returned("calculate_similarity") =>
       /\ ~ret.raised
       /\ InUnitInterval(ret.value)
       /\ (RefTokens(arg[1]) = {} \/ RefTokens(arg[2]) = {}) => ret.value[1] = 0
  /\ Returned("search_by_similarity") =>
       \A i \in 1..Len(arg[1]) :
         InUnitInterval(similarity(ToSet(findall_words(lower(arg[2]))),
                                   ToSet(findall_words(lower(arg[1][i].content)))))

\* Two of the six tokens of two texts were common to both.
C22_Witness ==
  /\ Returned("calculate_similarity")
  /\ arg = <<"the quick fox", "fox jumps. the cat sat">>
  /\ ret.value = <<2, 6>>

(***************************************************************************)
(* C23: search_documents is repeatable and stateless.  A search_documents  *)
(* call whose arguments (documents, query, scope, case flag) are those of  *)
(* the search on record returns the recorded result list, in the same      *)
(* order, whatever other search engine calls were made since; and a        *)
(* search_documents call leaves the caller's document list as it was.      *)
(***************************************************************************)
SearchStep == pc = "idle" /\ op' = "search_documents"

C24_IngestedNonEmpty ==
  /\ \A row \in table : row.content # "" /\ row.title # ""
  /\ (Returned("upload") /\ extract_text(arg[1]) = Return("")) => ret.raised
  /\ Returned("extract_title") => ret.value # ""

(***************************************************************************)
(* C25: the store changes a document only as asked.  In every step, a      *)
(* document that stays in the store keeps its id, filename, title,         *)
(* content, size and media type.  update_document_category(id, c) leaves   *)
(* every other document as it was, sets the category of document id to c   *)
(* and neither adds nor removes a document; it changes nothing when id is  *)
(* absent.  delete_document(id) removes document id and no other, returns  *)
(* true exactly when id was present, and get_document(id) finds nothing    *)
(* afterwards.                                                             *)
(***************************************************************************)
SameDocument(before, after) ==
  /\ before.id = after.id
  /\ before.filename = after.filename
  /\ before.title = after.title
  /\ before.content = after.content
  /\ before.file_size = after.file_size
  /\ before.file_type = after.file_type

StoreStep(name) == pc = "idle" /\ op' = name

C25_StoreFrame ==
  [][/\ \A before \in table, after \in table' :
          before.id = after.id => SameDocument(before, after)
     /\ StoreStep("update_document_category") =>
          /\ Ids(table') = Ids(table)
          /\ \A before \in table : before.id # arg'[1] => before \in table'
          /\ \A after \in table' : after.id = arg'[1] => after.category = arg'[2]
          /\ arg'[1] \notin Ids(table) => table' = table
     /\ StoreStep("delete_document") =>
          /\ table' = {before \in table : before.id # arg'[1]}
          /\ ret'.value = (arg'[1] \in Ids(table))
          /\ get_document(table', arg'[1]) = "None"
     /\ StoreStep("add_document") => (table \subseteq table' /\ ret'.value \notin Ids(table))
    ]_vars

\* Two documents were added, the second was moved to another category and
\* the first was deleted: the second is all that is left.
C25_Witness ==
  /\ Returned("delete_document")
  /\ arg = <<1>>
  /\ ret.value = TRUE
  /\ table = {Row(2, "memo.docx", "Budget", "tax and revenue", 30, WordType, "Legal")}

(***************************************************************************)
(* C26: when the text is longer than max_length, the cut is placed right   *)
(* after the sentence-ending character nearest to index max_length among   *)
(* those within 100 characters of it, and at max_length when there is none *)
(* in that window.                                                         *)
(***************************************************************************)
Distance(i, j) == IF i >= j THEN i - j ELSE j - i

\* The 0-based indexes of the sentence ends within 100 characters of
\* max_length.
RefEndsNear(content, max_length) ==
  {i \in (max_length - BreakWindow)..(max_length + BreakWindow) :
     i >= 0 /\ i < Len(content) /\ Char(content, i + 1) \in SentenceEnds}

\* The text cut after cut characters, as _truncate_content returns it.
RefCutAt(content, cut) ==
  strip(SubSeq(content, 1, cut)) \o (IF cut < Len(content) THEN "..." ELSE "")

C26_CutAtNearestEnd ==
  (Returned("_truncate_content") /\ Len(arg[1]) > arg[2]) =>
    LET near == RefEndsNear(arg[1], arg[2])
    IN  IF near = {} THEN ret.value = RefCutAt(arg[1], arg[2])
        ELSE \E i \in near :
               /\ \A j \in near : Distance(i, arg[2]) <= Distance(j, arg[2])
               /\ ret.value = RefCutAt(arg[1], i + 1)

(***************************************************************************)
(* C27 as stated: a text of at most max_length characters is returned      *)
(* unchanged; a longer text is returned either whole or as a prefix of at  *)
(* most max_length + 100 characters, shorter than the text, followed by    *)
(* "...".                                                                  *)
(***************************************************************************)
C27_EllipsisAfterPrefix ==
  Returned("_truncate_content") =>
    IF Len(arg[1]) <= arg[2] THEN ret.value = arg[1]
    ELSE \/ ret.value = arg[1]
         \/ \E n \in 0..(arg[2] + BreakWindow) :
              n < Len(arg[1]) /\ ret.value = SubSeq(arg[1], 1, n) \o "..."

\* The prefix of cut characters without its leading and trailing whitespace.
RefTrimmedPrefix(content, cut) ==
  IF \A i \in 1..cut : Char(content, i) \in Whitespace THEN ""
  ELSE SubSeq(content,
              CHOOSE i \in 1..cut :
                Char(content, i) \notin Whitespace
                  /\ \A j \in 1..(i - 1) : Char(content, j) \in Whitespace,
              CHOOSE i \in 1..cut :
                Char(content, i) \notin Whitespace
                  /\ \A j \in (i + 1)..cut : Char(content, j) \in Whitespace)

(***************************************************************************)
(* C27: a text of at most max_length characters is returned unchanged.  A  *)
(* longer text is cut at a point between max_length - 99 and               *)
(* max_length + 100 characters: the result is the prefix up to the cut     *)
(* without its leading and trailing whitespace, followed by "..." exactly  *)
(* when the cut lies before the end of the text.                           *)
(***************************************************************************)
C27_Ellipsis ==
  Returned("_truncate_content") =>
    IF Len(arg[1]) <= arg[2] THEN ret.value = arg[1]
    ELSE \E cut \in (arg[2] - BreakWindow + 1)..(arg[2] + BreakWindow) :
           /\ cut <= Len(arg[1])
           /\ ret.value = RefTrimmedPrefix(arg[1], cut)
                            \o (IF cut < Len(arg[1]) THEN "..." ELSE "")

\* A text that begins with a blank is cut at 1500 characters: the blank is
\* gone and the ellipsis follows 1499 letters.
C27_Witness ==
  /\ Returned("_truncate_content")
  /\ arg = <<" " \o Rep("a", 1700), DefaultMaxLength>>
  /\ ret.value = Rep("a", 1499) \o "..."

(***************************************************************************)
(* C28: highlighting only wraps text of the content.  For every returned   *)
(* document, the highlighted text before truncation, with every opening    *)
(* and closing mark tag taken out, is the content: no later term matched   *)
(* inside the markup inserted for an earlier term.                         *)
(***************************************************************************)
\* The length of the mark tag that starts at index i of text, 0 if none does.
TagAt(text, i) ==
  IF i + Len(MarkOpen) - 1 <= Len(text) /\ SubSeq(text, i, i + Len(MarkOpen) - 1) = MarkOpen
  THEN Len(MarkOpen)
  ELSE IF i + Len(MarkClose) - 1 <= Len(text)
            /\ SubSeq(text, i, i + Len(MarkClose) - 1) = MarkClose
       THEN Len(MarkClose)
       ELSE 0

\* text from index i on without the tags that start at the indexes in starts.
RECURSIVE UnmarkedOver(_, _, _)
UnmarkedOver(text, starts, i) ==
  IF starts = {} THEN SubSeq(text, i, Len(text))
  ELSE LET j == CHOOSE j \in starts : \A k \in starts : j <= k
       IN  SubSeq(text, i, j - 1)
             \o UnmarkedOver(text, starts \ {j}, j + TagAt(text, j))

Unmarked(text) ==
  UnmarkedOver(text, {i \in 1..Len(text) : TagAt(text, i) > 0}, 1)

C28_MarkupUntouched ==
  Returned("search_documents") =>
    \A k \in 1..Len(ret.value) :
      Unmarked(HighlightFrom(ret.value[k][2].content, _parse_query(arg[2]), 1, arg[4]))
        = ret.value[k][2].content

(***************************************************************************)
(* C29: when more tokens qualify than max_suggestions,                     *)
(* get_search_suggestions returns max_suggestions of them and every token  *)
(* it leaves out comes after every token it returns: the list is the       *)
(* max_suggestions smallest qualifying tokens, whatever the order in which *)
(* the word set is gone through.                                           *)
(***************************************************************************)
Suggested(word) == \E i \in 1..Len(ret.value) : ret.value[i] = word

C29_SmallestSuggestions ==
  (Returned("get_search_suggestions") /\ Len(arg[2]) >= MinPartialLength) =>
    LET qualifying == Qualifying(all_words(arg[1]), arg[2])
    IN  Cardinality(qualifying) > arg[3] =>
          /\ Len(ret.value) = arg[3]
          /\ \A word \in qualifying :
               ~Suggested(word) => \A i \in 1..Len(ret.value) : RefBefore(ret.value[i], word)

(***************************************************************************)
(* C30: advanced_search and search_documents agree.  For a query that      *)
(* parses to at least one term, search_documents(documents, query, "Both", *)
(* case_sensitive = False) returns the list that advanced_search returns   *)
(* for the parsed terms as include terms, without exclude terms, category  *)
(* or file type: the same (id, document, excerpt) triples in the same      *)
(* order.  It is checked on the result of either call.                     *)
(***************************************************************************)
C30_SearchesAgree ==
  /\ (Returned("search_documents") /\ arg[3] = "Both" /\ arg[4] = FALSE
        /\ _parse_query(arg[2]) # <<>>) =>
       ret = advanced_search(arg[1], _parse_query(arg[2]), <<>>, "", "")
  /\ (Returned("advanced_search") /\ arg[2] # <<>> /\ arg[3] = <<>> /\ arg[4] = ""
        /\ arg[5] = "") =>
       \A query \in Queries :
         _parse_query(query) = arg[2] => ret = search_documents(arg[1], query, "Both", FALSE)

\* The two-term query "Cat mark" on four documents: both calls return the
\* document of the notes with both terms marked.
C30_Witness ==
  /\ Returned("advanced_search")
  /\ arg = <<<<CatDoc, MarkDoc, AlphaDoc, FoxDoc>>, <<"Cat", "mark">>, <<>>, "", "">>
  /\ ret = search_documents(arg[1], "Cat mark", "Both", FALSE)
  /\ ResultDocs(ret.value) = <<MarkDoc>>
====
